---- MODULE Spec2Model ----
(***************************************************************************)
(* Model of the smart battery monitor (smart_battery_monitor.py, config.py).*)
(*                                                                         *)
(* Units.  Voltages are integers in decivolts (24.8 V = 248): the device   *)
(* reports millivolts and every threshold of the program lies on the       *)
(* 0.1 V grid.  Time is in units of MONITOR_INTERVAL (60 s, one minute);   *)
(* `now` counts minutes since Monday 00:00 of the week the monitor was     *)
(* started in and stands for both time.time() and datetime.now().          *)
(***************************************************************************)
EXTENDS Integers, Sequences, FiniteSets, TLC

\* ---------------------------------------------------------------- config.py
VOLTAGE_THRESHOLD_HIGH == 248
VOLTAGE_THRESHOLD_LOW == 235
SIMPLE_VOLTAGE_THRESHOLD_LOW == 245
SIMPLE_VOLTAGE_THRESHOLD_HIGH == 248
CRITICAL_VOLTAGE_THRESHOLD == 206
EMERGENCY_VOLTAGE_THRESHOLD == 210
LOW_VOLTAGE_PRIORITY_THRESHOLD == 212
NORMAL_VOLTAGE_THRESHOLD == 235
EVENING_EV_WAIT_THRESHOLD == 205
VOLTAGE_HEALTHY_THRESHOLD == 230
EMAIL_ALERT_VOLTAGE_THRESHOLD == 210
EMAIL_CRITICAL_VOLTAGE_THRESHOLD == 208
EMAIL_RECOVERY_VOLTAGE_THRESHOLD == 215
EMAIL_CRITICAL_HIGH_VOLTAGE_THRESHOLD == 250
EMAIL_COOLDOWN_MINUTES == 30
COMM_FAILURE_ALERT_MINUTES == 10
COMM_FAILURE_CRITICAL_MINUTES == 30
MONITOR_INTERVAL == 60
SOLAR_DETECTION_WINDOW == 3600
SOLAR_PLATEAU_THRESHOLD == 238
SOLAR_STRONG_GENERATION_THRESHOLD == 242
\* SOLAR_PLATEAU_MIN_DURATION = 1800 s, in minutes
SOLAR_PLATEAU_MIN_DURATION == 30
DEFAULT_CAMPING_VOLTAGE == 246

\* MONTHLY_SOLAR_PROFILE: solar_factor in hundredths, daylight (start, end)
MONTHLY_SOLAR_PROFILE ==
    [m \in 1..12 |->
        CASE m = 1  -> [solar_factor |-> 25,  daylight |-> <<8, 17>>]
          [] m = 2  -> [solar_factor |-> 35,  daylight |-> <<7, 18>>]
          [] m = 3  -> [solar_factor |-> 55,  daylight |-> <<7, 18>>]
          [] m = 4  -> [solar_factor |-> 75,  daylight |-> <<6, 19>>]
          [] m = 5  -> [solar_factor |-> 90,  daylight |-> <<6, 20>>]
          [] m = 6  -> [solar_factor |-> 100, daylight |-> <<5, 20>>]
          [] m = 7  -> [solar_factor |-> 100, daylight |-> <<5, 20>>]
          [] m = 8  -> [solar_factor |-> 95,  daylight |-> <<6, 19>>]
          [] m = 9  -> [solar_factor |-> 80,  daylight |-> <<7, 18>>]
          [] m = 10 -> [solar_factor |-> 60,  daylight |-> <<7, 17>>]
          [] m = 11 -> [solar_factor |-> 40,  daylight |-> <<8, 17>>]
          [] OTHER  -> [solar_factor |-> 20,  daylight |-> <<8, 17>>]]

PREFERRED_CHARGING_HOURS == <<<<0, 6>>, <<10, 17>>>>
AVOID_CHARGING_HOURS == <<<<17, 20>>>>

\* Python's None for an unset timestamp, threshold or sample
None == 0 - 1

\* ------------------------------------------------------------------ bounds
MinVoltage == 203
MaxVoltage == 252

Voltages == MinVoltage..MaxVoltage

\* ------------------------------------------------------------------- state
VARIABLES
    now,                      \* clock: minutes since Monday 00:00
    month,                    \* datetime.now().month
    camping_periods,          \* CAMPING_PERIODS as loaded from config
    camping_threshold,        \* threshold of the active camping period, or None
    threshold_low,            \* configured VOLTAGE_THRESHOLD_LOW
    daily_reboot_hour,        \* DAILY_REBOOT_HOUR, or None when not DAILY_REBOOT_ENABLED
    monthly_solar_profile,    \* MONTHLY_SOLAR_PROFILE as loaded from config
    charger_connected,        \* self.charger_connected
    relay,                    \* level of RELAY_PIN: "LOW" connects the charger
    first_decision,           \* self.first_decision
    solar_detected,           \* self.solar_detected
    last_voltage,             \* self.last_voltage
    voltage_history,          \* self.voltage_history: sequence of <<time, volts>>
    charger_state_changes,    \* self.charger_state_changes
    last_rapid_toggle_alert,  \* self.last_rapid_toggle_alert
    voltage_alert_sent,
    voltage_critical_sent,
    voltage_high_sent,
    voltage_critical_high_sent,
    comm_failure_sent,
    recovery_email_sent,
    last_email_alert,
    last_email_critical,
    last_email_high_voltage,
    last_email_critical_high,
    last_email_comm_failure,
    last_successful_voltage_read,
    consecutive_read_failures,
    consecutive_internet_failures,
    last_internet_check,
    last_internet_failure_alert,
    pc,                       \* position of the control flow
    voltage,                  \* monitor_loop's local: the sample of this cycle, or None
    decision,                 \* monitor_loop's locals (should_connect, reason)
    exc,                      \* exception in flight: "none" or its class
    outbox,                   \* notifications handed to the sink by the last operation
    delivered,                \* per category: time of the last delivered alert, or None
    recovered_since,          \* per category: a recovery was delivered after that alert
    attempted,                \* per category: time of the last alert handed to the sink
    rate_info,                \* monitor_loop's locals (rate_type, current_rate, has_ev_credit)
    read_call,                \* the running read_voltage call: its loop index and argument
    relay_writes,             \* number of GPIO writes to RELAY_PIN by the last operation
    solar_result,             \* return value of the last detect_solar_charging call
    evaluated,                \* detectors the last detect_solar_charging call evaluated
    cycles                    \* completed passes of the monitor loop

clockVars ==
    <<now, month, camping_periods, camping_threshold, threshold_low,
      daily_reboot_hour, monthly_solar_profile>>
chargerVars == <<charger_connected, relay, first_decision>>
toggleVars == <<charger_state_changes, last_rapid_toggle_alert>>
readVars ==
    <<last_voltage, voltage_history, last_successful_voltage_read,
      consecutive_read_failures>>
voltAlertVars ==
    <<voltage_alert_sent, voltage_critical_sent, voltage_high_sent,
      voltage_critical_high_sent, recovery_email_sent, last_email_alert,
      last_email_critical, last_email_high_voltage, last_email_critical_high>>
commAlertVars == <<comm_failure_sent, last_email_comm_failure>>
internetVars ==
    <<consecutive_internet_failures, last_internet_check,
      last_internet_failure_alert>>
sinkVars == <<outbox, delivered, recovered_since, attempted>>
solarVars == <<solar_detected, solar_result, evaluated>>
flowVars ==
    <<pc, voltage, rate_info, read_call, decision, exc, relay_writes, cycles>>

vars ==
    <<clockVars, chargerVars, toggleVars, readVars, voltAlertVars, commAlertVars,
      internetVars, sinkVars, solarVars, flowVars>>

\* ------------------------------------------------------------------- clock
Hour == (now \div 60) % 24
Minute == now % 60
Weekday == (now \div 1440) % 7

is_weekend_or_holiday == Weekday >= 5

get_current_month_profile == monthly_solar_profile[month]

get_solar_factor == get_current_month_profile.solar_factor

get_monthly_daylight_hours == get_current_month_profile.daylight

InHourRanges(ranges, h) ==
    \E i \in 1..Len(ranges) :
        IF ranges[i][1] <= ranges[i][2]
        THEN ranges[i][1] <= h /\ h < ranges[i][2]
        ELSE h >= ranges[i][1] \/ h < ranges[i][2]

is_preferred_charging_time ==
    IF is_weekend_or_holiday
    THEN 0 <= Hour /\ Hour < 6
    ELSE InHourRanges(PREFERRED_CHARGING_HOURS, Hour)

is_avoid_charging_time ==
    IF is_weekend_or_holiday
    THEN FALSE
    ELSE InHourRanges(AVOID_CHARGING_HOURS, Hour)

is_camping_period == camping_threshold # None

\* a date field of a CAMPING_PERIODS entry: a "%Y-%m-%d" text of the day
\* `date`, a text strptime rejects (date None), or a value that is no text
DateField(is_str, date) == [is_str |-> is_str, date |-> date]

\* date.today(), counted in days like the clock
Today == now \div 1440

\* the configuration under which the period of threshold t is active all week
PeriodsFor(t) ==
    IF t = None THEN <<>> ELSE <<<<DateField(TRUE, 0), DateField(TRUE, 13), t>>>>

\* is_camping_period() over the periods: the exception it raises or "none",
\* and the threshold it returns with True, or None with False.  Unpacking
\* `period[:2]` of an entry with fewer than two fields raises ValueError
\* ahead of the try block; inside it strptime raises TypeError for a value
\* that is no text and ValueError, which is caught, for a text it rejects
RECURSIVE is_camping_period_at(_, _)
is_camping_period_at(periods, today) ==
    IF periods = <<>>
    THEN [raised |-> "none", threshold |-> None]
    ELSE LET period == Head(periods)
             voltage_threshold ==
                 IF Len(period) = 3 THEN period[3] ELSE DEFAULT_CAMPING_VOLTAGE
         IN  IF Len(period) < 2
             THEN [raised |-> "ValueError", threshold |-> None]
             ELSE IF ~period[1].is_str
             THEN [raised |-> "TypeError", threshold |-> None]
             ELSE IF period[1].date = None
             THEN is_camping_period_at(Tail(periods), today)
             ELSE IF ~period[2].is_str
             THEN [raised |-> "TypeError", threshold |-> None]
             ELSE IF period[2].date = None
             THEN is_camping_period_at(Tail(periods), today)
             ELSE IF period[1].date <= today /\ today <= period[2].date
             THEN [raised |-> "none", threshold |-> voltage_threshold]
             ELSE is_camping_period_at(Tail(periods), today)

\* ---------------------------------------------------- get_current_rate_info
\* RATE_INFO, in hundredths of a cent per kWh
RATE_INFO ==
    [summer |-> [off_peak |-> 1505, mid_peak |-> 2077, peak |-> 3655, ev_credit |-> 0 - 150],
     winter |-> [off_peak |-> 1248, peak |-> 1724, ev_credit |-> 0 - 150]]

get_current_season == IF 6 <= month /\ month <= 9 THEN "summer" ELSE "winter"

\* the returned tuple (rate_type, rate, has_ev_credit)
RateInfo(rate_type, rate, has_ev_credit) ==
    [rate_type |-> rate_type, rate |-> rate, has_ev_credit |-> has_ev_credit]

NoRateInfo == RateInfo("NONE", 0, FALSE)

\* the tier before the EV credit is applied
base_rate_info ==
    LET season == get_current_season
    IN  IF is_weekend_or_holiday
        THEN RateInfo("off_peak_weekend", RATE_INFO[season].off_peak, FALSE)
        ELSE IF season = "summer"
        THEN IF 0 <= Hour /\ Hour < 12
             THEN RateInfo("off_peak", RATE_INFO[season].off_peak, FALSE)
             ELSE IF 12 <= Hour /\ Hour < 17
             THEN RateInfo("mid_peak", RATE_INFO[season].mid_peak, FALSE)
             ELSE IF 17 <= Hour /\ Hour < 20
             THEN RateInfo("peak", RATE_INFO[season].peak, FALSE)
             ELSE RateInfo("off_peak", RATE_INFO[season].off_peak, FALSE)
        ELSE IF 17 <= Hour /\ Hour < 20
             THEN RateInfo("peak", RATE_INFO[season].peak, FALSE)
             ELSE RateInfo("off_peak", RATE_INFO[season].off_peak, FALSE)

\* mutant: the EV credit is not applied on weekends and holidays
get_current_rate_info_weekday_credit ==
    LET has_ev_credit == 0 <= Hour /\ Hour < 6 /\ ~is_weekend_or_holiday
        base == base_rate_info
    IN  IF has_ev_credit
        THEN RateInfo(base.rate_type \o "_with_ev_credit",
                      base.rate + RATE_INFO[get_current_season].ev_credit, TRUE)
        ELSE base

get_current_rate_info ==
    LET has_ev_credit == 0 <= Hour /\ Hour < 6
        base == base_rate_info
    IN  IF has_ev_credit
        THEN RateInfo(base.rate_type \o "_with_ev_credit",
                      base.rate + RATE_INFO[get_current_season].ev_credit, TRUE)
        ELSE base

\* ---------------------------------------------------------- should_charge
Decision(connect, reason) == [connect |-> connect, reason |-> reason]

NoDecision == Decision(FALSE, "NONE")

\* camping thresholds the model draws from: the configured default and one
\* above the safety ceiling
CampingThresholds == {DEFAULT_CAMPING_VOLTAGE, VOLTAGE_THRESHOLD_HIGH + 2}

\* f"CAMPING_HIGH_VOLTAGE_{threshold}V" and f"CAMPING_HYSTERESIS_{threshold}V"
FormatThreshold(prefix, threshold) ==
    IF threshold = DEFAULT_CAMPING_VOLTAGE
    THEN IF prefix = "HIGH" THEN "CAMPING_HIGH_VOLTAGE_24.6V" ELSE "CAMPING_HYSTERESIS_24.6V"
    ELSE IF prefix = "HIGH" THEN "CAMPING_HIGH_VOLTAGE_25.0V" ELSE "CAMPING_HYSTERESIS_25.0V"

_camping_mode_logic(v, threshold) ==
    IF v >= threshold
    THEN Decision(FALSE, FormatThreshold("HIGH", threshold))
    ELSE IF v <= threshold - 5 \/ ~charger_connected
    THEN Decision(TRUE, "CAMPING_ALLOW_CHARGING")
    ELSE IF charger_connected
    THEN Decision(TRUE, "CAMPING_ALLOW_CHARGING")
    ELSE Decision(FALSE, FormatThreshold("HYSTERESIS", threshold))

\* DAILY_REBOOT_ENABLED and current_hour == DAILY_REBOOT_HOUR and minute < 5
reboot_due == daily_reboot_hour # None /\ Hour = daily_reboot_hour /\ Minute < 5

\* the healthy-voltage block (voltage > EMAIL_RECOVERY_VOLTAGE_THRESHOLD);
\* "FALL" stands for leaving the block without a return
healthy_voltage_logic(v) ==
    IF is_preferred_charging_time
    THEN IF charger_connected
         THEN IF v < NORMAL_VOLTAGE_THRESHOLD
              THEN Decision(TRUE, "PREFERRED_HOURS")
              ELSE Decision(FALSE, "VOLTAGE_HIGH_SKIP_PREFERRED")
         ELSE IF v <= LOW_VOLTAGE_PRIORITY_THRESHOLD + 18
              THEN Decision(TRUE, "PREFERRED_HOURS")
              ELSE Decision(FALSE, "VOLTAGE_HIGH_SKIP_PREFERRED")
    ELSE IF get_monthly_daylight_hours[1] <= Hour /\ Hour < get_monthly_daylight_hours[2]
    THEN IF charger_connected
         THEN IF v < NORMAL_VOLTAGE_THRESHOLD
              THEN Decision(TRUE, "DAYLIGHT_HOURS_POTENTIAL_SOLAR")
              ELSE Decision(FALSE, "VOLTAGE_HIGH_SKIP_DAYLIGHT")
         ELSE IF v <= VOLTAGE_HEALTHY_THRESHOLD
              THEN Decision(TRUE, "DAYLIGHT_HOURS_POTENTIAL_SOLAR")
              ELSE Decision(FALSE, "VOLTAGE_HIGH_SKIP_DAYLIGHT")
    ELSE IF is_avoid_charging_time
    THEN Decision(FALSE, "PEAK_RATE_AVOIDANCE")
    ELSE IF 20 <= Hour /\ Hour <= 23 /\ v > LOW_VOLTAGE_PRIORITY_THRESHOLD + 12
    THEN Decision(FALSE, "WAITING_FOR_EV_CREDIT_PERIOD")
    ELSE IF v > VOLTAGE_HEALTHY_THRESHOLD
    THEN Decision(FALSE, "VOLTAGE_HEALTHY_WAIT_FOR_EV_CREDIT")
    ELSE Decision(FALSE, "FALL")

\* the generic hysteresis, the fallback and the default
fallback_logic(v) ==
    IF charger_connected /\ v > threshold_low
    THEN Decision(FALSE, "HYSTERESIS_DISCONNECT")
    ELSE IF ~charger_connected /\ v > threshold_low
    THEN Decision(FALSE, "HYSTERESIS_STAY_DISCONNECTED")
    ELSE IF is_preferred_charging_time
    THEN Decision(TRUE, "FALLBACK_PREFERRED_HOURS")
    ELSE Decision(charger_connected, "MAINTAIN_STATE")

\* from the weekend rule to the end of should_charge
late_rules(v) ==
    IF is_weekend_or_holiday
    THEN IF charger_connected
         THEN IF v < LOW_VOLTAGE_PRIORITY_THRESHOLD + 10
              THEN Decision(TRUE, "WEEKEND_LOW_VOLTAGE")
              ELSE Decision(FALSE, "WEEKEND_WAIT_FOR_EV_CREDIT")
         ELSE IF v <= LOW_VOLTAGE_PRIORITY_THRESHOLD + 2
              THEN Decision(TRUE, "WEEKEND_LOW_VOLTAGE")
              ELSE Decision(FALSE, "WEEKEND_WAIT_FOR_EV_CREDIT")
    ELSE IF v > EMAIL_RECOVERY_VOLTAGE_THRESHOLD /\ healthy_voltage_logic(v).reason # "FALL"
    THEN healthy_voltage_logic(v)
    ELSE fallback_logic(v)

\* mutant: the evening band holds the charger state on the first decision too
time_window_rules_no_first_decision(v) ==
    IF 6 <= Hour /\ Hour < 10
    THEN IF v <= LOW_VOLTAGE_PRIORITY_THRESHOLD
         THEN Decision(TRUE, "MORNING_LOW_VOLTAGE_CHARGE")
         ELSE IF v >= LOW_VOLTAGE_PRIORITY_THRESHOLD + 13
         THEN Decision(FALSE, "MORNING_WAIT_FOR_SOLAR")
         ELSE IF charger_connected
         THEN Decision(TRUE, "MORNING_LOW_VOLTAGE_CHARGE")
         ELSE Decision(FALSE, "MORNING_WAIT_FOR_SOLAR")
    ELSE IF 20 <= Hour /\ Hour <= 23
    THEN IF v <= EVENING_EV_WAIT_THRESHOLD
         THEN Decision(TRUE, "EVENING_LOW_VOLTAGE_CHARGE")
         ELSE IF v >= EVENING_EV_WAIT_THRESHOLD + 10
         THEN Decision(FALSE, "WAITING_FOR_EV_CREDIT_PERIOD")
         ELSE IF charger_connected
         THEN Decision(TRUE, "EVENING_LOW_VOLTAGE_CHARGE")
         ELSE Decision(FALSE, "WAITING_FOR_EV_CREDIT_PERIOD")
    ELSE IF v <= LOW_VOLTAGE_PRIORITY_THRESHOLD
    THEN IF is_avoid_charging_time /\ ~solar_detected
         THEN IF v <= LOW_VOLTAGE_PRIORITY_THRESHOLD - 2
              THEN Decision(TRUE, "LOW_VOLTAGE_OVERRIDE_PEAK")
              ELSE Decision(FALSE, "LOW_VOLTAGE_PEAK_AVOIDANCE")
         ELSE Decision(TRUE, "LOW_VOLTAGE_PRIORITY")
    ELSE IF v >= LOW_VOLTAGE_PRIORITY_THRESHOLD + 13 /\ charger_connected
            /\ ~is_preferred_charging_time
    THEN Decision(FALSE, "LOW_VOLTAGE_CHARGED")
    ELSE Decision(FALSE, "FALL")

\* the morning, evening and low-voltage-priority rules; "FALL" as above
time_window_rules(v) ==
    IF 6 <= Hour /\ Hour < 10
    THEN IF v <= LOW_VOLTAGE_PRIORITY_THRESHOLD
         THEN Decision(TRUE, "MORNING_LOW_VOLTAGE_CHARGE")
         ELSE IF v >= LOW_VOLTAGE_PRIORITY_THRESHOLD + 13
         THEN Decision(FALSE, "MORNING_WAIT_FOR_SOLAR")
         ELSE IF charger_connected
         THEN Decision(TRUE, "MORNING_LOW_VOLTAGE_CHARGE")
         ELSE Decision(FALSE, "MORNING_WAIT_FOR_SOLAR")
    ELSE IF 20 <= Hour /\ Hour <= 23
    THEN IF v <= EVENING_EV_WAIT_THRESHOLD
         THEN Decision(TRUE, "EVENING_LOW_VOLTAGE_CHARGE")
         ELSE IF v >= EVENING_EV_WAIT_THRESHOLD + 10
         THEN Decision(FALSE, "WAITING_FOR_EV_CREDIT_PERIOD")
         ELSE IF first_decision
         THEN Decision(FALSE, "WAITING_FOR_EV_CREDIT_PERIOD")
         ELSE IF charger_connected
         THEN Decision(TRUE, "EVENING_LOW_VOLTAGE_CHARGE")
         ELSE Decision(FALSE, "WAITING_FOR_EV_CREDIT_PERIOD")
    ELSE IF v <= LOW_VOLTAGE_PRIORITY_THRESHOLD
    THEN IF is_avoid_charging_time /\ ~solar_detected
         THEN IF v <= LOW_VOLTAGE_PRIORITY_THRESHOLD - 2
              THEN Decision(TRUE, "LOW_VOLTAGE_OVERRIDE_PEAK")
              ELSE Decision(FALSE, "LOW_VOLTAGE_PEAK_AVOIDANCE")
         ELSE Decision(TRUE, "LOW_VOLTAGE_PRIORITY")
    ELSE IF v >= LOW_VOLTAGE_PRIORITY_THRESHOLD + 13 /\ charger_connected
            /\ ~is_preferred_charging_time
    THEN Decision(FALSE, "LOW_VOLTAGE_CHARGED")
    ELSE Decision(FALSE, "FALL")

\* mutant: the safety ceiling compares with > instead of >=
safety_rules_strict_ceiling(v) ==
    IF v > VOLTAGE_THRESHOLD_HIGH
    THEN Decision(FALSE, "SAFETY_HIGH_VOLTAGE")
    ELSE IF ~charger_connected /\ v >= threshold_low
    THEN Decision(FALSE, "SAFETY_HIGH_VOLTAGE_HYSTERESIS")
    ELSE IF v <= CRITICAL_VOLTAGE_THRESHOLD
    THEN Decision(TRUE, "CRITICAL_INVERTER_PROTECTION")
    ELSE IF v <= EMERGENCY_VOLTAGE_THRESHOLD
    THEN Decision(TRUE, "EMERGENCY_LOW_VOLTAGE")
    ELSE Decision(FALSE, "FALL")

\* mutant: the high-voltage hysteresis compares with > instead of >=
safety_rules_strict_hysteresis(v) ==
    IF v >= VOLTAGE_THRESHOLD_HIGH
    THEN Decision(FALSE, "SAFETY_HIGH_VOLTAGE")
    ELSE IF ~charger_connected /\ v > threshold_low
    THEN Decision(FALSE, "SAFETY_HIGH_VOLTAGE_HYSTERESIS")
    ELSE IF v <= CRITICAL_VOLTAGE_THRESHOLD
    THEN Decision(TRUE, "CRITICAL_INVERTER_PROTECTION")
    ELSE IF v <= EMERGENCY_VOLTAGE_THRESHOLD
    THEN Decision(TRUE, "EMERGENCY_LOW_VOLTAGE")
    ELSE Decision(FALSE, "FALL")

\* mutant: the critical-low rule compares with < instead of <=
safety_rules_strict_critical(v) ==
    IF v >= VOLTAGE_THRESHOLD_HIGH
    THEN Decision(FALSE, "SAFETY_HIGH_VOLTAGE")
    ELSE IF ~charger_connected /\ v >= threshold_low
    THEN Decision(FALSE, "SAFETY_HIGH_VOLTAGE_HYSTERESIS")
    ELSE IF v < CRITICAL_VOLTAGE_THRESHOLD
    THEN Decision(TRUE, "CRITICAL_INVERTER_PROTECTION")
    ELSE IF v <= EMERGENCY_VOLTAGE_THRESHOLD
    THEN Decision(TRUE, "EMERGENCY_LOW_VOLTAGE")
    ELSE Decision(FALSE, "FALL")

\* mutant: the emergency rule compares with < instead of <=
safety_rules_strict_emergency(v) ==
    IF v >= VOLTAGE_THRESHOLD_HIGH
    THEN Decision(FALSE, "SAFETY_HIGH_VOLTAGE")
    ELSE IF ~charger_connected /\ v >= threshold_low
    THEN Decision(FALSE, "SAFETY_HIGH_VOLTAGE_HYSTERESIS")
    ELSE IF v <= CRITICAL_VOLTAGE_THRESHOLD
    THEN Decision(TRUE, "CRITICAL_INVERTER_PROTECTION")
    ELSE IF v < EMERGENCY_VOLTAGE_THRESHOLD
    THEN Decision(TRUE, "EMERGENCY_LOW_VOLTAGE")
    ELSE Decision(FALSE, "FALL")

\* the safety ceiling, its hysteresis, critical low and emergency low
safety_rules(v) ==
    IF v >= VOLTAGE_THRESHOLD_HIGH
    THEN Decision(FALSE, "SAFETY_HIGH_VOLTAGE")
    ELSE IF ~charger_connected /\ v >= threshold_low
    THEN Decision(FALSE, "SAFETY_HIGH_VOLTAGE_HYSTERESIS")
    ELSE IF v <= CRITICAL_VOLTAGE_THRESHOLD
    THEN Decision(TRUE, "CRITICAL_INVERTER_PROTECTION")
    ELSE IF v <= EMERGENCY_VOLTAGE_THRESHOLD
    THEN Decision(TRUE, "EMERGENCY_LOW_VOLTAGE")
    ELSE Decision(FALSE, "FALL")

\* the EV-credit window and the solar rule
\* mutant: the solar rule is tested before the EV-credit rule
priority_rules_solar_first(v) ==
    IF solar_detected
    THEN IF v >= NORMAL_VOLTAGE_THRESHOLD
         THEN Decision(FALSE, "SOLAR_VOLTAGE_HIGH")
         ELSE Decision(TRUE, "SOLAR_ACTIVE")
    ELSE IF 0 <= Hour /\ Hour < 6
    THEN IF v >= NORMAL_VOLTAGE_THRESHOLD
         THEN Decision(FALSE, "EV_CREDIT_VOLTAGE_HIGH")
         ELSE Decision(TRUE, "EV_CREDIT_PRIORITY")
    ELSE Decision(FALSE, "FALL")

priority_rules(v) ==
    IF 0 <= Hour /\ Hour < 6
    THEN IF v >= NORMAL_VOLTAGE_THRESHOLD
         THEN Decision(FALSE, "EV_CREDIT_VOLTAGE_HIGH")
         ELSE Decision(TRUE, "EV_CREDIT_PRIORITY")
    ELSE IF solar_detected
    THEN IF v >= NORMAL_VOLTAGE_THRESHOLD
         THEN Decision(FALSE, "SOLAR_VOLTAGE_HIGH")
         ELSE Decision(TRUE, "SOLAR_ACTIVE")
    ELSE Decision(FALSE, "FALL")

\* NORMAL MODE: the cascade after the camping check
normal_mode_logic(v) ==
    IF safety_rules(v).reason # "FALL"
    THEN safety_rules(v)
    ELSE IF priority_rules(v).reason # "FALL"
    THEN priority_rules(v)
    ELSE IF time_window_rules(v).reason # "FALL"
    THEN time_window_rules(v)
    ELSE IF reboot_due
    THEN Decision(charger_connected, "REBOOT_FAILED_MAINTAIN_STATE")
    ELSE late_rules(v)

\* should_charge(voltage): the decision it returns; where control reaches
\* schedule_reboot() this is the value returned if the reboot does not happen
should_charge(v) ==
    IF is_camping_period
    THEN _camping_mode_logic(v, camping_threshold)
    ELSE normal_mode_logic(v)

\* control reaches self.schedule_reboot() inside should_charge
calls_schedule_reboot(v) ==
    should_charge(v).reason = "REBOOT_FAILED_MAINTAIN_STATE"


\* ------------------------------------------------------- notification sink
Categories ==
    {"critical_high", "high", "low", "critical_low", "comm_failure",
     "rapid_toggle", "internet_failure"}

\* one call of send_email_notification: the categories it is about, whether it
\* is an alert or a recovery notice, whether the sink delivered it, and the
\* is_critical argument (False by default)
Msg(cats, kind, ok) == [cats |-> cats, kind |-> kind, ok |-> ok, is_critical |-> FALSE]

\* a call with is_critical=True
CriticalMsg(cats, kind, ok) == [Msg(cats, kind, ok) EXCEPT !.is_critical = TRUE]

AlertAttempted(msgs, c) ==
    \E i \in 1..Len(msgs) : msgs[i].kind = "alert" /\ c \in msgs[i].cats

AlertDelivered(msgs, c) ==
    \E i \in 1..Len(msgs) : msgs[i].ok /\ msgs[i].kind = "alert" /\ c \in msgs[i].cats

RecoveryDelivered(msgs, c) ==
    \E i \in 1..Len(msgs) : msgs[i].ok /\ msgs[i].kind = "recovery" /\ c \in msgs[i].cats

\* the sink observes the calls of one operation
Sink(msgs) ==
    /\ outbox' = msgs
    /\ attempted' =
        [c \in Categories |-> IF AlertAttempted(msgs, c) THEN now ELSE attempted[c]]
    /\ delivered' =
        [c \in Categories |-> IF AlertDelivered(msgs, c) THEN now ELSE delivered[c]]
    /\ recovered_since' =
        [c \in Categories |->
            IF AlertDelivered(msgs, c) THEN FALSE
            ELSE IF RecoveryDelivered(msgs, c) THEN TRUE
            ELSE recovered_since[c]]

\* ------------------------------------------------------------ read_voltage
HistoryCapacity == SOLAR_DETECTION_WINDOW \div MONITOR_INTERVAL

\* mutant: the history grows without a bound
HistoryAppend_unbounded(h, sample) == Append(h, sample)

\* deque(maxlen=HistoryCapacity).append
HistoryAppend(h, sample) ==
    IF Len(h) < HistoryCapacity THEN Append(h, sample) ELSE Append(Tail(h), sample)

\* mutant: a failed read repeats the last reading in the history
read_voltage_failure_appends(r) ==
    /\ last_voltage' = IF r # None THEN r ELSE last_voltage
    /\ last_successful_voltage_read' = IF r # None THEN now ELSE last_successful_voltage_read
    /\ consecutive_read_failures' = IF r # None THEN 0 ELSE consecutive_read_failures + 1
    /\ voltage_history' =
          HistoryAppend(voltage_history, <<now, IF r # None THEN r ELSE last_voltage>>)

\* read_voltage(): r is the voltage parsed from the device, or None when no
\* reading was obtained (50 lines without one, or an I/O error)
read_voltage(r) ==
    IF r # None
    THEN /\ last_voltage' = r
         /\ last_successful_voltage_read' = now
         /\ consecutive_read_failures' = 0
         /\ voltage_history' = HistoryAppend(voltage_history, <<now, r>>)
    ELSE /\ consecutive_read_failures' = consecutive_read_failures + 1
         /\ UNCHANGED <<last_voltage, last_successful_voltage_read, voltage_history>>

\* the locals of a read_voltage call: lines read in the running pass, the
\* recovery_attempt argument, and the passes and reconnects made so far
ReadCall(attempt, recovery_attempt, passes, reconnects, error) ==
    [attempt |-> attempt, recovery_attempt |-> recovery_attempt,
     passes |-> passes, reconnects |-> reconnects, error |-> error]

NoReadCall == ReadCall(0, FALSE, 0, 0, "none")

\* --------------------------------------------------------- initial states
InitCharger ==
    /\ charger_connected = TRUE
    /\ relay = "LOW"
    /\ first_decision = TRUE

InitToggle ==
    /\ charger_state_changes = <<>>
    /\ last_rapid_toggle_alert = None

InitRead ==
    /\ last_voltage = 0
    /\ voltage_history = <<>>
    /\ last_successful_voltage_read = now
    /\ consecutive_read_failures = 0

InitVoltAlerts ==
    /\ voltage_alert_sent = FALSE
    /\ voltage_critical_sent = FALSE
    /\ voltage_high_sent = FALSE
    /\ voltage_critical_high_sent = FALSE
    /\ recovery_email_sent = FALSE
    /\ last_email_alert = None
    /\ last_email_critical = None
    /\ last_email_high_voltage = None
    /\ last_email_critical_high = None

InitCommAlerts ==
    /\ comm_failure_sent = FALSE
    /\ last_email_comm_failure = None

InitInternet ==
    /\ consecutive_internet_failures = 0
    /\ last_internet_check = None
    /\ last_internet_failure_alert = None

InitSink ==
    /\ outbox = <<>>
    /\ delivered = [c \in Categories |-> None]
    /\ attempted = [c \in Categories |-> None]
    /\ recovered_since = [c \in Categories |-> FALSE]

InitSolar ==
    /\ solar_detected = FALSE
    /\ solar_result = FALSE
    /\ evaluated = {}

InitFlow(position) ==
    /\ pc = position
    /\ voltage = None
    /\ rate_info = NoRateInfo
    /\ read_call = NoReadCall
    /\ decision = NoDecision
    /\ exc = "none"
    /\ relay_writes = 0
    /\ cycles = 0

\* -------------------------------------------- should_charge as a step
\* schedule_reboot(): a final read_voltage(), then `sudo reboot` and
\* sys.exit(0); if the reboot command cannot be run it returns
schedule_reboot(r, rebooted) ==
    /\ read_voltage(r)
    /\ IF rebooted
       THEN exc' = "SystemExit" /\ UNCHANGED decision
       ELSE /\ exc' = "none"
            /\ decision' = Decision(charger_connected, "REBOOT_FAILED_MAINTAIN_STATE")

\* mutant: SystemExit leaves the loop without running the finally clause
after_raise_exit_skips_finally(kind) ==
    IF kind = "none" THEN "next" ELSE IF kind = "SystemExit" THEN "done" ELSE "cleanup"

\* try/except/finally of monitor_loop: whatever is raised inside the loop
\* body, control reaches self.cleanup(); "next" stands for no raise
after_raise(kind) == IF kind = "none" THEN "next" ELSE "cleanup"

\* the position after a step that may raise
Goto(position, kind) == IF after_raise(kind) = "next" THEN position ELSE after_raise(kind)

\* should_connect, reason = self.should_charge(voltage)
CallShouldCharge(v) ==
    IF calls_schedule_reboot(v)
    THEN \E r \in Voltages \cup {None}, rebooted \in BOOLEAN : schedule_reboot(r, rebooted)
    ELSE /\ decision' = should_charge(v)
         /\ exc' = "none"
         /\ UNCHANGED readVars

\* rate_type, current_rate, has_ev_credit = self.get_current_rate_info() and
\* should_connect, reason = self.should_charge(voltage)
StepDecide ==
    /\ pc = "decide"
    /\ rate_info' = get_current_rate_info
    /\ CallShouldCharge(voltage)
    /\ pc' = Goto("control", exc')
    /\ UNCHANGED <<clockVars, chargerVars, toggleVars, voltAlertVars, commAlertVars,
                   internetVars, sinkVars, solarVars, voltage, read_call,
                   relay_writes, cycles>>

\* ------------------------------------- specification: should_charge alone
\* every hour of a Monday and of a Saturday, and a minute past the reboot window
DecideHours == {d * 1440 + h * 60 : d \in {0, 5}, h \in 0..23} \cup {12 * 60 + 30}

\* one month for each daylight window that ends at a different hour
DecideMonths == {1, 2, 4, 6}

InitDecide ==
    /\ now \in DecideHours
    /\ month \in DecideMonths
    /\ camping_threshold \in {None} \cup CampingThresholds
    /\ threshold_low = VOLTAGE_THRESHOLD_LOW
    /\ daily_reboot_hour \in {None, 12}
    /\ camping_periods = PeriodsFor(camping_threshold)
    /\ monthly_solar_profile = MONTHLY_SOLAR_PROFILE
    /\ charger_connected \in BOOLEAN
    /\ relay = IF charger_connected THEN "LOW" ELSE "HIGH"
    /\ first_decision \in {b \in BOOLEAN : b => charger_connected}
    /\ InitToggle
    /\ voltage \in Voltages
    /\ last_voltage = voltage
    /\ voltage_history = <<<<now, voltage>>>>
    /\ last_successful_voltage_read = now
    /\ consecutive_read_failures = 0
    /\ InitVoltAlerts /\ InitCommAlerts /\ InitInternet /\ InitSink
    /\ solar_detected \in BOOLEAN
    /\ solar_result = solar_detected
    /\ evaluated = {}
    /\ pc = "decide"
    /\ rate_info = NoRateInfo
    /\ read_call = NoReadCall
    /\ decision = NoDecision
    /\ exc = "none"
    /\ relay_writes = 0
    /\ cycles = 0

SpecDecide == InitDecide /\ [][StepDecide]_vars


\* ------------------------------------------------------------ claims C1, C2
\* C1 as stated: for every voltage >= VOLTAGE_THRESHOLD_HIGH should_charge
\* returns (disconnect, "SAFETY_HIGH_VOLTAGE") whatever the other inputs are,
\* an active camping period included.
C1_AsStated ==
    (pc = "control" /\ voltage >= VOLTAGE_THRESHOLD_HIGH)
        => decision = Decision(FALSE, "SAFETY_HIGH_VOLTAGE")

\* C1 amended: with no camping period active, every voltage >=
\* VOLTAGE_THRESHOLD_HIGH yields (disconnect, "SAFETY_HIGH_VOLTAGE") for every
\* charger state, hour, weekday/weekend, solar flag and first-decision flag;
\* with a camping period active the camping rule decides instead and
\* disconnects exactly when the voltage is at or above the camping threshold.
C1_SafetyCeiling ==
    (pc = "control" /\ voltage >= VOLTAGE_THRESHOLD_HIGH)
        => IF camping_threshold = None
           THEN decision = Decision(FALSE, "SAFETY_HIGH_VOLTAGE")
           ELSE /\ decision.reason # "SAFETY_HIGH_VOLTAGE"
                /\ decision.connect = (voltage < camping_threshold)

C1_Witness ==
    /\ pc = "control"
    /\ voltage = VOLTAGE_THRESHOLD_HIGH
    /\ camping_threshold = None
    /\ charger_connected /\ solar_detected /\ Hour = 3
    /\ decision = Decision(FALSE, "SAFETY_HIGH_VOLTAGE")

\* C2: with no camping period active, every voltage <=
\* CRITICAL_VOLTAGE_THRESHOLD yields (connect, "CRITICAL_INVERTER_PROTECTION")
\* for every charger state, hour, weekday/weekend, solar flag and
\* first-decision flag; with a camping period active the camping rule decides.
C2_CriticalLow ==
    (pc = "control" /\ voltage <= CRITICAL_VOLTAGE_THRESHOLD)
        => IF camping_threshold = None
           THEN decision = Decision(TRUE, "CRITICAL_INVERTER_PROTECTION")
           ELSE decision = Decision(TRUE, "CAMPING_ALLOW_CHARGING")

C2_Witness ==
    /\ pc = "control"
    /\ voltage = CRITICAL_VOLTAGE_THRESHOLD
    /\ camping_threshold = None
    /\ ~charger_connected /\ ~solar_detected /\ Hour = 21
    /\ decision = Decision(TRUE, "CRITICAL_INVERTER_PROTECTION")


\* --------------------------------- control_charger, check_rapid_toggling
\* deque(maxlen=10)
TOGGLE_LOG_CAPACITY == 10
\* 300 s, 4 changes, 3600 s
RAPID_TOGGLE_WINDOW == 5
RAPID_TOGGLE_MIN_CHANGES == 4
RAPID_TOGGLE_COOLDOWN == 60

\* mutant: the log is a list without maxlen
ToggleLogAppend_unbounded(log, entry) == Append(log, entry)

ToggleLogAppend(log, entry) ==
    IF Len(log) < TOGGLE_LOG_CAPACITY THEN Append(log, entry) ELSE Append(Tail(log), entry)

IsRecentChange(change) == now - change.t <= RAPID_TOGGLE_WINDOW

\* recent_changes of check_rapid_toggling
RecentChanges(log) == SelectSeq(log, IsRecentChange)

\* mutant: the alert fires at three recent changes already
rapid_toggle_alert_due_three(log) ==
    /\ Len(log) >= RAPID_TOGGLE_MIN_CHANGES - 1
    /\ Len(RecentChanges(log)) >= RAPID_TOGGLE_MIN_CHANGES - 1
    /\ \/ last_rapid_toggle_alert = None
       \/ now - last_rapid_toggle_alert > RAPID_TOGGLE_COOLDOWN

\* check_rapid_toggling(): the conditions under which it alerts, given the log
\* after the append
rapid_toggle_alert_due(log) ==
    /\ Len(log) >= RAPID_TOGGLE_MIN_CHANGES
    /\ Len(RecentChanges(log)) >= RAPID_TOGGLE_MIN_CHANGES
    /\ \/ last_rapid_toggle_alert = None
       \/ now - last_rapid_toggle_alert > RAPID_TOGGLE_COOLDOWN

\* mutant: the rapid-toggle guard holds the charger where it is while it alerts
SwitchCharger_guard_holds(should_connect, reason, ok) ==
    LET log == ToggleLogAppend(charger_state_changes,
                   [t |-> now,
                    state |-> IF should_connect THEN "connected" ELSE "disconnected",
                    reason |-> reason])
    IN  /\ charger_state_changes' = log
        /\ IF rapid_toggle_alert_due(log)
           THEN /\ last_rapid_toggle_alert' = now
                /\ Sink(<<Msg({"rapid_toggle"}, "alert", ok)>>)
                /\ relay_writes' = 0
                /\ UNCHANGED <<relay, charger_connected>>
           ELSE /\ relay' = IF should_connect THEN "LOW" ELSE "HIGH"
                /\ relay_writes' = 1
                /\ charger_connected' = should_connect
                /\ UNCHANGED last_rapid_toggle_alert
                /\ Sink(<<>>)

\* the state change of control_charger: the relay write, the flag, the log
\* entry and the rapid-toggle check
SwitchCharger(should_connect, reason, ok) ==
    LET log == ToggleLogAppend(charger_state_changes,
                   [t |-> now,
                    state |-> IF should_connect THEN "connected" ELSE "disconnected",
                    reason |-> reason])
    IN  /\ relay' = IF should_connect THEN "LOW" ELSE "HIGH"
        /\ relay_writes' = 1
        /\ charger_connected' = should_connect
        /\ charger_state_changes' = log
        /\ IF rapid_toggle_alert_due(log)
           THEN /\ last_rapid_toggle_alert' = now
                /\ Sink(<<Msg({"rapid_toggle"}, "alert", ok)>>)
           ELSE /\ UNCHANGED last_rapid_toggle_alert
                /\ Sink(<<>>)

\* mutant: the relay is written and the change logged on every call
control_charger_always_writes(should_connect, reason, gpio_ok, ok) ==
    /\ first_decision' = FALSE
    /\ exc' = "none"
    /\ SwitchCharger(should_connect, reason, ok)

\* mutant: charger_connected is assigned before the relay is written
control_charger_flag_first(should_connect, reason, gpio_ok, ok) ==
    /\ first_decision' = FALSE
    /\ IF should_connect # charger_connected
       THEN IF gpio_ok
            THEN exc' = "none" /\ SwitchCharger(should_connect, reason, ok)
            ELSE /\ exc' = "Exception"
                 /\ relay_writes' = 0
                 /\ charger_connected' = should_connect
                 /\ Sink(<<>>)
                 /\ UNCHANGED <<relay, toggleVars>>
       ELSE /\ exc' = "none"
            /\ relay_writes' = 0
            /\ Sink(<<>>)
            /\ UNCHANGED <<relay, charger_connected, toggleVars>>

\* control_charger(should_connect, reason); gpio_ok: GPIO.output does not
\* raise, ok: the sink delivers the rapid-toggle alert
control_charger(should_connect, reason, gpio_ok, ok) ==
    /\ first_decision' = FALSE
    /\ IF should_connect # charger_connected
       THEN IF gpio_ok
            THEN exc' = "none" /\ SwitchCharger(should_connect, reason, ok)
            ELSE /\ exc' = "Exception"
                 /\ relay_writes' = 0
                 /\ Sink(<<>>)
                 /\ UNCHANGED <<relay, charger_connected, toggleVars>>
       ELSE /\ exc' = "none"
            /\ relay_writes' = 0
            /\ Sink(<<>>)
            /\ UNCHANGED <<relay, charger_connected, toggleVars>>

StepControl ==
    /\ pc = "control"
    /\ \E gpio_ok \in BOOLEAN, ok \in BOOLEAN :
          control_charger(decision.connect, decision.reason, gpio_ok, ok)
    /\ pc' = Goto("post", exc')
    /\ UNCHANGED <<clockVars, readVars, voltAlertVars, commAlertVars, internetVars,
                   solarVars, voltage, rate_info, read_call, decision, cycles>>

\* ------------------------------ specification: control_charger called in turn
MaxControlCalls == 9

\* the time between two calls: one monitor interval, or a pause
ControlPauses == {1, RAPID_TOGGLE_COOLDOWN - 3}

InitControl ==
    /\ now = 12 * 60
    /\ month = 6
    /\ camping_threshold = None
    /\ threshold_low = VOLTAGE_THRESHOLD_LOW
    /\ daily_reboot_hour = None
    /\ camping_periods = PeriodsFor(camping_threshold)
    /\ monthly_solar_profile = MONTHLY_SOLAR_PROFILE
    /\ InitCharger /\ InitToggle /\ InitRead /\ InitVoltAlerts /\ InitCommAlerts
    /\ InitInternet /\ InitSink /\ InitSolar
    /\ InitFlow("control")

\* a caller passes the two values of should_connect
CallControl ==
    /\ pc = "control"
    /\ \E should_connect \in BOOLEAN, gpio_ok \in BOOLEAN, ok \in BOOLEAN :
          /\ decision' = Decision(should_connect, "CALL")
          /\ control_charger(should_connect, "CALL", gpio_ok, ok)
    /\ pc' = IF exc' = "none" THEN "sleep" ELSE "raised"
    /\ cycles' = cycles + 1
    /\ UNCHANGED <<clockVars, readVars, voltAlertVars, commAlertVars, internetVars,
                   solarVars, voltage, rate_info, read_call>>

\* time passes between two calls
Pause ==
    /\ pc = "sleep"
    /\ cycles < MaxControlCalls
    /\ \E d \in ControlPauses : now' = now + d
    /\ pc' = "control"
    /\ UNCHANGED <<month, camping_periods, camping_threshold, threshold_low,
                   daily_reboot_hour,
                   monthly_solar_profile,
                   chargerVars, toggleVars, readVars, voltAlertVars, commAlertVars,
                   internetVars, sinkVars, solarVars, voltage, rate_info, read_call, decision, exc,
                   relay_writes, cycles>>

NextControl == CallControl \/ Pause

SpecControl == InitControl /\ [][NextControl]_vars


\* C4: control_charger is idempotent. A call writes the relay at most once and
\* appends at most one entry to the toggle log; a call that follows a call
\* with the same should_connect writes nothing, leaves charger_connected and
\* the relay alone and appends nothing.
C4_ControlIdempotent ==
    [][ (pc = "control" /\ pc' # "control")
          => /\ relay_writes' <= 1
             /\ Len(charger_state_changes') <= Len(charger_state_changes) + 1
             /\ (decision.reason = "CALL" /\ decision'.connect = decision.connect)
                  => /\ relay_writes' = 0
                     /\ UNCHANGED <<charger_connected, relay, charger_state_changes>> ]_vars

C4_Witness ==
    /\ pc = "sleep" /\ cycles = 2
    /\ decision = Decision(FALSE, "CALL")
    /\ Len(charger_state_changes) = 1
    /\ ~charger_connected /\ relay = "HIGH"
    /\ relay_writes = 0

\* C7: on a state change of the charger a rapid-toggle alert is handed to the
\* sink exactly when at least four logged changes, this one included, lie in
\* the trailing 300 seconds and no rapid-toggle alert was handed to the sink in
\* the preceding 3600 seconds.
C7_RapidToggle ==
    [][ (pc = "control" /\ relay_writes' = 1)
          => (AlertAttempted(outbox', "rapid_toggle")
                <=> /\ Len(RecentChanges(charger_state_changes')) >= 4
                    /\ \/ attempted["rapid_toggle"] = None
                       \/ now - attempted["rapid_toggle"] > 60) ]_vars

\* the fifth change, one minute after the alert of the fourth: no second alert
C7_Witness ==
    /\ pc = "sleep" /\ relay_writes = 1
    /\ Len(charger_state_changes) = 5
    /\ Len(RecentChanges(charger_state_changes)) = 5
    /\ attempted["rapid_toggle"] = now - 1
    /\ outbox = <<>>

\* ------------------------------ check_voltage_alerts, check_communication_failure
\* mutant: the cooldown is ignored once an alert of the category has been sent
cooldown_elapsed_always(last) == last # None

\* mutant: the cooldown counts as elapsed after exactly EMAIL_COOLDOWN_MINUTES
cooldown_elapsed_at_limit(last) == last # None /\ now - last >= EMAIL_COOLDOWN_MINUTES

\* self.last_email_x and now - self.last_email_x > cooldown_period
cooldown_elapsed(last) == last # None /\ now - last > EMAIL_COOLDOWN_MINUTES

\* the branch of the if/elif chain of check_voltage_alerts that a voltage takes
alert_branch(v) ==
    IF v <= EMAIL_CRITICAL_VOLTAGE_THRESHOLD THEN "critical_low"
    ELSE IF v <= EMAIL_ALERT_VOLTAGE_THRESHOLD /\ v > EMAIL_CRITICAL_VOLTAGE_THRESHOLD THEN "low"
    ELSE IF v >= VOLTAGE_THRESHOLD_HIGH THEN "high"
    ELSE IF EMAIL_RECOVERY_VOLTAGE_THRESHOLD <= v /\ v < VOLTAGE_THRESHOLD_HIGH THEN "recovery"
    ELSE "none"

\* the recovery notice chosen inside the recovery branch
recovery_branch ==
    IF (voltage_alert_sent \/ voltage_critical_sent) /\ ~recovery_email_sent THEN "low"
    ELSE IF voltage_critical_high_sent /\ ~recovery_email_sent THEN "critical_high"
    ELSE IF voltage_high_sent /\ ~recovery_email_sent THEN "high"
    ELSE "none"

\* the categories a recovery notice is about
RecoveredCategories(kind) ==
    IF kind = "low"
    THEN {c \in {"low"} : voltage_alert_sent} \cup {c \in {"critical_low"} : voltage_critical_sent}
    ELSE {kind}

\* check_voltage_alerts(voltage); ok1: the sink delivers the critical-high
\* alert, ok2: it delivers the notice of the if/elif chain
check_voltage_alerts(v, ok1, ok2) ==
    LET b == alert_branch(v)
        r == IF b = "recovery" THEN recovery_branch ELSE "none"
        sendCH == /\ v >= EMAIL_CRITICAL_HIGH_VOLTAGE_THRESHOLD
                  /\ ~voltage_critical_high_sent \/ cooldown_elapsed(last_email_critical_high)
        sendCL == /\ b = "critical_low"
                  /\ ~voltage_critical_sent \/ cooldown_elapsed(last_email_critical)
        sendL  == /\ b = "low"
                  /\ ~voltage_alert_sent \/ cooldown_elapsed(last_email_alert)
        sendH  == /\ b = "high"
                  /\ ~voltage_high_sent \/ cooldown_elapsed(last_email_high_voltage)
        alerted == (sendCH /\ ok1) \/ ((sendCL \/ sendL \/ sendH) /\ ok2)
        recovered == r # "none" /\ ok2
    IN  /\ Sink((IF sendCH THEN <<CriticalMsg({"critical_high"}, "alert", ok1)>> ELSE <<>>)
                \o (IF sendCL THEN <<CriticalMsg({b}, "alert", ok2)>>
                    ELSE IF sendL \/ sendH THEN <<Msg({b}, "alert", ok2)>>
                    ELSE IF r # "none" THEN <<Msg(RecoveredCategories(r), "recovery", ok2)>>
                    ELSE <<>>))
        /\ last_email_critical_high' = IF sendCH /\ ok1 THEN now ELSE last_email_critical_high
        /\ last_email_critical' = IF sendCL /\ ok2 THEN now ELSE last_email_critical
        /\ last_email_alert' = IF sendL /\ ok2 THEN now ELSE last_email_alert
        /\ last_email_high_voltage' = IF sendH /\ ok2 THEN now ELSE last_email_high_voltage
        /\ voltage_critical_high_sent' =
              IF sendCH /\ ok1 THEN TRUE
              ELSE IF r = "critical_high" /\ ok2 THEN FALSE ELSE voltage_critical_high_sent
        /\ voltage_critical_sent' =
              IF sendCL /\ ok2 THEN TRUE
              ELSE IF r = "low" /\ ok2 THEN FALSE ELSE voltage_critical_sent
        /\ voltage_alert_sent' =
              IF sendL /\ ok2 THEN TRUE
              ELSE IF r = "low" /\ ok2 THEN FALSE ELSE voltage_alert_sent
        /\ voltage_high_sent' =
              IF sendH /\ ok2 THEN TRUE
              ELSE IF r = "high" /\ ok2 THEN FALSE ELSE voltage_high_sent
        /\ recovery_email_sent' =
              IF alerted THEN FALSE ELSE IF recovered THEN TRUE ELSE recovery_email_sent

\* check_communication_failure(); ok: the sink delivers the notice
check_communication_failure(ok) ==
    LET minutes_since_last_read == now - last_successful_voltage_read
        due == ~comm_failure_sent \/ cooldown_elapsed(last_email_comm_failure)
        critical == minutes_since_last_read >= COMM_FAILURE_CRITICAL_MINUTES
        warning == ~critical /\ minutes_since_last_read >= COMM_FAILURE_ALERT_MINUTES
        failing == critical \/ warning
        restored == ~failing /\ comm_failure_sent /\ minutes_since_last_read < 2
    IN  /\ Sink(IF critical /\ due THEN <<CriticalMsg({"comm_failure"}, "alert", ok)>>
                ELSE IF warning /\ due THEN <<Msg({"comm_failure"}, "alert", ok)>>
                ELSE IF restored THEN <<Msg({"comm_failure"}, "recovery", ok)>>
                ELSE <<>>)
        /\ last_email_comm_failure' =
              IF failing /\ due /\ ok THEN now ELSE last_email_comm_failure
        /\ comm_failure_sent' =
              IF failing /\ due /\ ok THEN TRUE
              ELSE IF restored /\ ok THEN FALSE ELSE comm_failure_sent

\* ------------------------------------------------- steps of the monitor loop
\* voltage = self.read_voltage(), the reading drawn from V, or None
StepRead(V) ==
    /\ pc = "read"
    /\ \E r \in V \cup {None} :
          /\ read_voltage(r)
          /\ voltage' = r
          /\ pc' = IF r = None THEN "comm" ELSE "alerts"
    /\ UNCHANGED <<clockVars, chargerVars, toggleVars, voltAlertVars, commAlertVars,
                   internetVars, sinkVars, solarVars, rate_info, read_call, decision, exc,
                   relay_writes, cycles>>

\* self.check_voltage_alerts(voltage)
StepAlerts ==
    /\ pc = "alerts"
    /\ \E ok1 \in BOOLEAN, ok2 \in BOOLEAN : check_voltage_alerts(voltage, ok1, ok2)
    /\ pc' = "comm"
    /\ UNCHANGED <<clockVars, chargerVars, toggleVars, readVars, commAlertVars,
                   internetVars, solarVars, voltage, rate_info, read_call, decision, exc, relay_writes, cycles>>

\* self.check_communication_failure(), on either branch of the loop body
StepComm ==
    /\ pc = "comm"
    /\ \E ok \in BOOLEAN : check_communication_failure(ok)
    /\ pc' = "internet"
    /\ UNCHANGED <<clockVars, chargerVars, toggleVars, readVars, voltAlertVars,
                   internetVars, solarVars, voltage, rate_info, read_call, decision, exc, relay_writes, cycles>>

\* time.sleep(MONITOR_INTERVAL): the next cycle starts d minutes later
StepSleep(D, max) ==
    /\ pc = "sleep"
    /\ cycles < max
    /\ \E d \in D : now' = now + d
    /\ cycles' = cycles + 1
    /\ pc' = "read"
    /\ UNCHANGED <<month, camping_periods, camping_threshold, threshold_low,
                   daily_reboot_hour,
                   monthly_solar_profile,
                   chargerVars, toggleVars, readVars, voltAlertVars, commAlertVars,
                   internetVars, sinkVars, solarVars, voltage, rate_info, read_call, decision, exc,
                   relay_writes>>

\* --------------------------------- specification: the alert checks of a cycle
MaxAlertCycles == 2

\* one reading in each band of check_voltage_alerts
AlertVoltages ==
    {EMAIL_CRITICAL_VOLTAGE_THRESHOLD, EMAIL_ALERT_VOLTAGE_THRESHOLD,
     EMAIL_RECOVERY_VOLTAGE_THRESHOLD, VOLTAGE_THRESHOLD_HIGH,
     EMAIL_CRITICAL_HIGH_VOLTAGE_THRESHOLD}

\* the time between two cycles: a comm-failure warning delay, and what reaches
\* and what passes the cooldown together with it
AlertPauses ==
    {COMM_FAILURE_ALERT_MINUTES,
     EMAIL_COOLDOWN_MINUTES - COMM_FAILURE_ALERT_MINUTES,
     EMAIL_COOLDOWN_MINUTES - COMM_FAILURE_ALERT_MINUTES + 1}

InitAlert ==
    /\ now = 12 * 60
    /\ month = 6
    /\ camping_threshold = None
    /\ threshold_low = VOLTAGE_THRESHOLD_LOW
    /\ daily_reboot_hour = None
    /\ camping_periods = PeriodsFor(camping_threshold)
    /\ monthly_solar_profile = MONTHLY_SOLAR_PROFILE
    /\ InitCharger /\ InitToggle /\ InitRead /\ InitVoltAlerts /\ InitCommAlerts
    /\ InitInternet /\ InitSink /\ InitSolar
    /\ InitFlow("read")

\* the rest of the cycle, which the alert checks do not depend on
AlertRestOfCycle ==
    /\ pc = "internet"
    /\ pc' = "sleep"
    /\ UNCHANGED <<clockVars, chargerVars, toggleVars, readVars, voltAlertVars,
                   commAlertVars, internetVars, sinkVars, solarVars, voltage, rate_info, read_call,
                   decision, exc, relay_writes, cycles>>

NextAlert ==
    \/ StepRead(AlertVoltages)
    \/ StepAlerts
    \/ StepComm
    \/ AlertRestOfCycle
    \/ StepSleep(AlertPauses, MaxAlertCycles)

SpecAlert == InitAlert /\ [][NextAlert]_vars

\* ------------------------------------------------------------ claims C5, C6
\* the categories of check_voltage_alerts and check_communication_failure
VoltageCategories == {"critical_high", "high", "low", "critical_low"}

\* the sent flag of each voltage category
SentFlag ==
    [c \in VoltageCategories |->
        IF c = "critical_high" THEN voltage_critical_high_sent
        ELSE IF c = "high" THEN voltage_high_sent
        ELSE IF c = "low" THEN voltage_alert_sent
        ELSE voltage_critical_sent]

\* C5 as stated: two delivered alerts of one category are never less than
\* EMAIL_COOLDOWN_MINUTES apart, a recovery in between or not.
C5_AsStated ==
    [][ (pc = "alerts" \/ pc = "comm")
          => \A c \in VoltageCategories \cup {"comm_failure"} :
                AlertDelivered(outbox', c)
                  => \/ delivered[c] = None
                     \/ now - delivered[c] >= EMAIL_COOLDOWN_MINUTES
      ]_vars

\* C5, amended: two delivered alerts of one category with no delivered
\* recovery notice for that category between them are more than
\* EMAIL_COOLDOWN_MINUTES apart; after a recovery notice the next alert of the
\* category is sent at once.
C5_Cooldown ==
    [][ (pc = "alerts" \/ pc = "comm")
          => \A c \in VoltageCategories \cup {"comm_failure"} :
                AlertDelivered(outbox', c)
                  => \/ delivered[c] = None
                     \/ recovered_since[c]
                     \/ now - delivered[c] > EMAIL_COOLDOWN_MINUTES
      ]_vars

\* a low-voltage sample exactly one cooldown after the delivered low-voltage
\* alert, with no recovery since: nothing is sent
C5_Witness ==
    /\ pc = "comm"
    /\ alert_branch(voltage) = "low"
    /\ delivered["low"] = now - EMAIL_COOLDOWN_MINUTES
    /\ ~recovered_since["low"]
    /\ voltage_alert_sent
    /\ outbox = <<>>

\* C6: when a sample lies in the safe band and the sink delivers, every
\* voltage category whose sent flag is set gets a delivered recovery notice
\* and has its flag cleared, also when several categories are flagged.
C6_AsStated ==
    [][ ( /\ pc = "alerts"
          /\ alert_branch(voltage) = "recovery"
          /\ \A i \in 1..Len(outbox') : outbox'[i].ok )
          => \A c \in VoltageCategories :
                SentFlag[c] => RecoveryDelivered(outbox', c) /\ ~SentFlag'[c]
      ]_vars

\* --------------------------------------------------- detect_solar_charging
\* list(...)[-n:]
LastReadings(h, n) == IF Len(h) <= n THEN h ELSE SubSeq(h, Len(h) - n + 1, Len(h))

\* mutant: the trimmed window is used in a low-solar month even when it is empty
_detect_solar_by_time_always_trimmed ==
    LET start_hour == get_monthly_daylight_hours[1]
        end_hour == get_monthly_daylight_hours[2]
        is_daylight == start_hour <= Hour /\ Hour < end_hour
    IN  IF get_solar_factor < 30
        THEN is_daylight /\ start_hour + 2 <= Hour /\ Hour < end_hour - 2
        ELSE is_daylight

\* _detect_solar_by_time(): the month's daylight window, trimmed by two hours
\* at each end when the solar factor is below 0.3
_detect_solar_by_time ==
    LET start_hour == get_monthly_daylight_hours[1]
        end_hour == get_monthly_daylight_hours[2]
        is_daylight == start_hour <= Hour /\ Hour < end_hour
    IN  IF get_solar_factor < 30 /\ start_hour + 2 < end_hour - 2
        THEN is_daylight /\ start_hour + 2 <= Hour /\ Hour < end_hour - 2
        ELSE is_daylight

\* voltage_rate > SOLAR_VOLTAGE_INCREASE_RATE over the last ten readings:
\* (dv / 10) / (dt / 60) > 0.1 with dv in decivolts and dt in minutes
trend_rising ==
    LET recent == LastReadings(voltage_history, 10)
        time_diff == recent[Len(recent)][1] - recent[1][1]
        voltage_diff == recent[Len(recent)][2] - recent[1][2]
    IN  Len(recent) >= 5 /\ time_diff > 0 /\ 60 * voltage_diff > time_diff

_detect_solar_by_voltage_trend == trend_rising /\ _detect_solar_by_time

IsPlateauReading(reading) == reading[2] >= SOLAR_PLATEAU_THRESHOLD

_detect_solar_by_plateau ==
    LET plateau_readings == SelectSeq(voltage_history, IsPlateauReading)
    IN  /\ last_voltage >= SOLAR_PLATEAU_THRESHOLD
        /\ Len(plateau_readings) >= 2
        /\ plateau_readings[Len(plateau_readings)][1] - plateau_readings[1][1]
              >= SOLAR_PLATEAU_MIN_DURATION
        /\ _detect_solar_by_time

\* mutant: the load-compensated detector does not ask for daylight
_detect_solar_with_load_compensation_ungated ==
    LET recent == LastReadings(voltage_history, 20)
        dt == recent[Len(recent)][1] - recent[1][1]
        dv == recent[Len(recent)][2] - recent[1][2]
    IN  /\ Len(voltage_history) >= 20
        /\ dt > 0
        /\ \/ 120 * dv > dt
           \/ IF last_voltage > SOLAR_STRONG_GENERATION_THRESHOLD THEN 200 * dv > 0 - dt
              ELSE IF last_voltage > SOLAR_PLATEAU_THRESHOLD THEN 150 * dv > 0 - dt
              ELSE 125 * dv > 0 - dt

\* the rate tests, in V/h, are 6 * dv / dt > 0.05, > -0.03, > -0.08 * 0.5 and
\* > -0.08 * 0.6
_detect_solar_with_load_compensation ==
    LET recent == LastReadings(voltage_history, 20)
        dt == recent[Len(recent)][1] - recent[1][1]
        dv == recent[Len(recent)][2] - recent[1][2]
    IN  /\ Len(voltage_history) >= 20
        /\ dt > 0
        /\ _detect_solar_by_time
        /\ \/ 120 * dv > dt
           \/ IF last_voltage > SOLAR_STRONG_GENERATION_THRESHOLD THEN 200 * dv > 0 - dt
              ELSE IF last_voltage > SOLAR_PLATEAU_THRESHOLD THEN 150 * dv > 0 - dt
              ELSE 125 * dv > 0 - dt

\* detect_solar_charging() with the fallback taken below min_history readings
SolarDetection(min_history) ==
    IF Len(voltage_history) < min_history
    THEN /\ solar_result' = _detect_solar_by_time
         /\ solar_detected' = IF _detect_solar_by_time THEN TRUE ELSE solar_detected
         /\ evaluated' = {"time_based"}
    ELSE LET solar_active == \/ _detect_solar_by_voltage_trend
                             \/ _detect_solar_by_time
                             \/ _detect_solar_by_plateau
                             \/ _detect_solar_with_load_compensation
         IN  /\ solar_result' = solar_active
             /\ solar_detected' = solar_active
             /\ evaluated' = {"voltage_trend", "time_based", "voltage_plateau",
                              "load_compensation"}

\* mutant: the fallback is taken below four readings
detect_solar_charging_below_four == SolarDetection(4)

detect_solar_charging == SolarDetection(5)

\* self.detect_solar_charging(), then control goes on to the decision
StepSolar ==
    /\ pc = "solar"
    /\ detect_solar_charging
    /\ pc' = "decide"
    /\ UNCHANGED <<clockVars, charger_connected, relay, first_decision, toggleVars,
                   readVars, voltAlertVars, commAlertVars, internetVars, sinkVars,
                   voltage, rate_info, read_call, decision, exc, relay_writes, cycles>>

\* ------------------------------- specification: the solar estimate of a cycle
MaxSolarCycles == 4

\* 23.0 V, 23.3 V, 23.6 V, and 23.9 V, which is above the plateau threshold
SolarVoltages ==
    {VOLTAGE_HEALTHY_THRESHOLD, VOLTAGE_HEALTHY_THRESHOLD + 3,
     VOLTAGE_HEALTHY_THRESHOLD + 6, SOLAR_PLATEAU_THRESHOLD + 1}

\* a quarter of an hour between two readings
SolarPauses == {15}

\* the history after n successful reads one minute apart, the last of them one
\* minute before t
HistoryAfter(n, t) ==
    [i \in 1..n |-> <<t - n - 1 + i, VOLTAGE_HEALTHY_THRESHOLD + (i % 2)>>]

\* January from 08:00 and from 10:00, June from 12:00, from 19:45 and from
\* 20:00; a monitor that has just started, or one that has read for twenty
\* minutes
InitSolarCycle ==
    /\ \E start \in {<<1, 8 * 60>>, <<1, 10 * 60>>, <<6, 12 * 60>>,
                      <<6, 19 * 60 + 45>>, <<6, 20 * 60>>} :
          month = start[1] /\ now = start[2]
    /\ camping_threshold = None
    /\ threshold_low = VOLTAGE_THRESHOLD_LOW
    /\ daily_reboot_hour = None
    /\ camping_periods = PeriodsFor(camping_threshold)
    /\ monthly_solar_profile = MONTHLY_SOLAR_PROFILE
    /\ InitCharger /\ InitToggle /\ InitVoltAlerts /\ InitCommAlerts
    /\ InitInternet /\ InitSink /\ InitSolar
    /\ \E n \in {0, 20} :
          /\ voltage_history = HistoryAfter(n, now)
          /\ last_voltage = IF n = 0 THEN 0 ELSE voltage_history[n][2]
          /\ last_successful_voltage_read = IF n = 0 THEN now ELSE now - 1
    /\ consecutive_read_failures = 0
    /\ InitFlow("read")

\* the steps of the cycle before and after the solar estimate
SolarRestOfCycle ==
    /\ \/ pc = "alerts" /\ pc' = "solar"
       \/ pc \in {"comm", "decide"} /\ pc' = "sleep"
    /\ UNCHANGED <<clockVars, chargerVars, toggleVars, readVars, voltAlertVars,
                   commAlertVars, internetVars, sinkVars, solarVars, voltage, rate_info, read_call,
                   decision, exc, relay_writes, cycles>>

NextSolar ==
    \/ StepRead(SolarVoltages)
    \/ SolarRestOfCycle
    \/ StepSolar
    \/ StepSleep(SolarPauses, MaxSolarCycles)

SpecSolar == InitSolarCycle /\ [][NextSolar]_vars

\* ------------------------------------------------------------ claims C8, C9
\* C8: with fewer than 5 readings in the history detect_solar_charging returns
\* the result of the time-based detector and evaluates no other detector.
C8_FallbackTimeBased ==
    (pc = "decide" /\ Len(voltage_history) < 5)
        => /\ solar_result = _detect_solar_by_time
           /\ evaluated = {"time_based"}

\* four rising readings in daylight: the estimate is the time-based one
C8_Witness ==
    /\ pc = "decide"
    /\ Len(voltage_history) = 4
    /\ voltage_history[1][2] < voltage_history[4][2]
    /\ solar_result
    /\ evaluated = {"time_based"}

\* C9: with at least 5 readings, a rise rate above SOLAR_VOLTAGE_INCREASE_RATE
\* over the last ten readings and the hour inside the month's daylight window
\* make the solar estimate true, in every month.
C9_AsStated ==
    ( /\ pc = "decide"
      /\ Len(voltage_history) >= 5
      /\ trend_rising
      /\ get_monthly_daylight_hours[1] <= Hour
      /\ Hour < get_monthly_daylight_hours[2] )
        => solar_result

\* ------------------------------------------------ the rest of the loop body
\* check_charging_failure, detect_voltage_stall, log_to_csv and the status log
StepPost ==
    /\ pc = "post"
    /\ pc' = "sleep"
    /\ UNCHANGED <<clockVars, chargerVars, toggleVars, readVars, voltAlertVars,
                   commAlertVars, internetVars, sinkVars, solarVars, voltage, rate_info, read_call,
                   decision, exc, relay_writes, cycles>>

\* ------------------- specification: reading, decision and relay of a cycle
MaxHysteresisCycles == 3

\* 23.0 V, the readings around the safety band: 24.4 V, 24.6 V, 24.9 V, and
\* 20.6 V and 21.3 V: a critical reading and one inside the evening band
HysteresisVoltages ==
    {VOLTAGE_HEALTHY_THRESHOLD, SIMPLE_VOLTAGE_THRESHOLD_LOW - 1,
     SIMPLE_VOLTAGE_THRESHOLD_LOW + 1, VOLTAGE_THRESHOLD_HIGH + 1,
     CRITICAL_VOLTAGE_THRESHOLD, LOW_VOLTAGE_PRIORITY_THRESHOLD + 1}

\* Monday 03:00, 12:00 and 21:00 and Saturday 12:00; the configured reconnect
\* threshold or 24.5 V; the solar estimate is left as it is chosen here
InitHysteresis ==
    /\ now \in {3 * 60, 12 * 60, 21 * 60, 5 * 1440 + 12 * 60}
    /\ month = 6
    /\ camping_threshold = None
    /\ threshold_low \in {VOLTAGE_THRESHOLD_LOW, SIMPLE_VOLTAGE_THRESHOLD_LOW}
    /\ daily_reboot_hour = None
    /\ camping_periods = PeriodsFor(camping_threshold)
    /\ monthly_solar_profile = MONTHLY_SOLAR_PROFILE
    /\ InitCharger /\ InitToggle /\ InitRead /\ InitVoltAlerts /\ InitCommAlerts
    /\ InitInternet /\ InitSink
    /\ solar_detected \in BOOLEAN
    /\ solar_result = solar_detected
    /\ evaluated = {}
    /\ InitFlow("read")

\* the checks between the reading and the decision
HysteresisRestOfCycle ==
    /\ \/ pc = "alerts" /\ pc' = "decide"
       \/ pc = "comm" /\ pc' = "sleep"
    /\ UNCHANGED <<clockVars, chargerVars, toggleVars, readVars, voltAlertVars,
                   commAlertVars, internetVars, sinkVars, solarVars, voltage, rate_info, read_call,
                   decision, exc, relay_writes, cycles>>

NextHysteresis ==
    \/ StepRead(HysteresisVoltages)
    \/ HysteresisRestOfCycle
    \/ StepDecide
    \/ StepControl
    \/ StepPost
    \/ StepSleep({1}, MaxHysteresisCycles)

SpecHysteresis == InitHysteresis /\ [][NextHysteresis]_vars

\* ---------------------------------------------------------------- claim C3
\* C3: in normal mode, once the safety ceiling (or its hysteresis) has kept
\* the charger disconnected in the previous cycle, the decision of this cycle
\* is connect exactly when the reading is below threshold_low.
C3_AsStated ==
    [][ ( /\ pc = "decide" /\ pc' = "control"
          /\ camping_threshold = None
          /\ decision.reason \in {"SAFETY_HIGH_VOLTAGE", "SAFETY_HIGH_VOLTAGE_HYSTERESIS"}
          /\ ~charger_connected )
          => (decision'.connect <=> voltage < threshold_low)
      ]_vars

\* ---------------------------------------------------- check_internet_health
\* INTERNET_CHECK_INTERVAL (minutes) and INTERNET_FAILURE_THRESHOLD are read
\* from the configuration; timedelta(hours=1) is the alert cooldown
INTERNET_CHECK_INTERVAL == 5
INTERNET_FAILURE_THRESHOLD == 2
INTERNET_ALERT_COOLDOWN == 60

\* check_internet_health() with reset_pi_for_internet_failure();
\* is_connected: a host answered, ok: the sink delivers, rebooted: the reboot
\* command was run, after which sys.exit(0) raises SystemExit
check_internet_health(is_connected, ok, rebooted) ==
    LET due == \/ last_internet_check = None
               \/ now - last_internet_check >= INTERNET_CHECK_INTERVAL
        failures == consecutive_internet_failures + 1
        alert == /\ failures = 1
                 /\ \/ last_internet_failure_alert = None
                    \/ now - last_internet_failure_alert > INTERNET_ALERT_COOLDOWN
        reset == failures >= INTERNET_FAILURE_THRESHOLD
    IN  IF ~due
        THEN exc' = "none" /\ Sink(<<>>) /\ UNCHANGED internetVars
        ELSE /\ last_internet_check' = now
             /\ IF is_connected
                THEN /\ consecutive_internet_failures' = 0
                     /\ last_internet_failure_alert' =
                           IF consecutive_internet_failures > 0 THEN None
                           ELSE last_internet_failure_alert
                     /\ Sink(<<>>)
                     /\ exc' = "none"
                ELSE /\ Sink((IF alert THEN <<Msg({"internet_failure"}, "alert", ok)>> ELSE <<>>)
                             \o (IF reset THEN <<CriticalMsg({"internet_failure"}, "reset", ok)>> ELSE <<>>))
                     /\ last_internet_failure_alert' =
                           IF alert THEN now ELSE last_internet_failure_alert
                     /\ consecutive_internet_failures' =
                           IF reset /\ ~rebooted THEN 0 ELSE failures
                     /\ exc' = IF reset /\ rebooted THEN "SystemExit" ELSE "none"

\* self.check_internet_health(), on either branch of the loop body
StepInternet ==
    /\ pc = "internet"
    /\ \E is_connected \in BOOLEAN, ok \in BOOLEAN, rebooted \in BOOLEAN :
          check_internet_health(is_connected, ok, rebooted)
    /\ pc' = Goto(IF voltage = None THEN "sleep" ELSE "solar", exc')
    /\ UNCHANGED <<clockVars, chargerVars, toggleVars, readVars, voltAlertVars,
                   commAlertVars, solarVars, voltage, rate_info, read_call, decision, relay_writes, cycles>>

\* ------------------------------------------------ termination and cleanup
\* where the loop body can be left by a raise: a KeyboardInterrupt arrives at
\* any point, an Exception is raised inside a call of the loop body
RaisePositions(kind) ==
    IF kind = "KeyboardInterrupt"
    THEN {"read", "alerts", "comm", "internet", "solar", "decide", "control", "post", "sleep"}
    ELSE {"alerts", "comm", "internet", "solar", "decide", "control", "post"}

StepRaise ==
    /\ \E kind \in {"KeyboardInterrupt", "Exception"} :
          /\ pc \in RaisePositions(kind)
          /\ exc' = kind
          /\ pc' = Goto(pc, kind)
    /\ UNCHANGED <<clockVars, chargerVars, toggleVars, readVars, voltAlertVars,
                   commAlertVars, internetVars, sinkVars, solarVars, voltage, rate_info, read_call,
                   decision, relay_writes, cycles>>

\* cleanup(); first_ok: GPIO.output(RELAY_PIN, GPIO.LOW) does not raise,
\* rest_ok: nor does the rest of the try block, emergency_ok: nor does the
\* write of the except block. The loop ends at "done", or at "gpio_failed"
\* when every write of RELAY_PIN raised.
cleanup(first_ok, rest_ok, emergency_ok) ==
    LET emergency == ~first_ok \/ ~rest_ok
        writes == (IF first_ok THEN 1 ELSE 0) + (IF emergency /\ emergency_ok THEN 1 ELSE 0)
    IN  /\ relay_writes' = writes
        /\ relay' = IF writes > 0 THEN "LOW" ELSE relay
        /\ pc' = IF writes > 0 THEN "done" ELSE "gpio_failed"

\* finally: self.cleanup()
StepCleanup ==
    /\ pc = "cleanup"
    /\ \E first_ok \in BOOLEAN, rest_ok \in BOOLEAN, emergency_ok \in BOOLEAN :
          cleanup(first_ok, rest_ok, emergency_ok)
    /\ UNCHANGED <<clockVars, charger_connected, first_decision, toggleVars, readVars,
                   voltAlertVars, commAlertVars, internetVars, sinkVars, solarVars,
                   voltage, rate_info, read_call, decision, exc, cycles>>

\* ------------------------------------------- specification: monitor_loop
MaxLoopCycles == 1

\* 20.6 V, 22.0 V and 24.9 V
LoopVoltages == {CRITICAL_VOLTAGE_THRESHOLD, 220, VOLTAGE_THRESHOLD_HIGH + 1}

\* a Monday in January at 19:00, with the daily reboot off or due at 19:00
InitLoop ==
    /\ now = 19 * 60
    /\ month = 1
    /\ camping_threshold = None
    /\ threshold_low = VOLTAGE_THRESHOLD_LOW
    /\ daily_reboot_hour \in {None, 19}
    /\ camping_periods = PeriodsFor(camping_threshold)
    /\ monthly_solar_profile = MONTHLY_SOLAR_PROFILE
    /\ InitCharger /\ InitToggle /\ InitRead /\ InitVoltAlerts /\ InitCommAlerts
    /\ InitInternet /\ InitSink /\ InitSolar
    /\ InitFlow("read")

NextLoop ==
    \/ StepRead(LoopVoltages)
    \/ StepAlerts
    \/ StepComm
    \/ StepInternet
    \/ StepSolar
    \/ StepDecide
    \/ StepControl
    \/ StepPost
    \/ StepSleep({INTERNET_CHECK_INTERVAL}, MaxLoopCycles)
    \/ StepRaise
    \/ StepCleanup

SpecLoop == InitLoop /\ [][NextLoop]_vars

LastSentAt ==
    [c \in Categories |->
        IF c = "critical_high" THEN last_email_critical_high
        ELSE IF c = "high" THEN last_email_high_voltage
        ELSE IF c = "low" THEN last_email_alert
        ELSE IF c = "critical_low" THEN last_email_critical
        ELSE IF c = "comm_failure" THEN last_email_comm_failure
        ELSE IF c = "rapid_toggle" THEN last_rapid_toggle_alert
        ELSE last_internet_failure_alert]

\* C11: when an operation hands an alert of a category to the sink and the
\* sink returns failure, the category's last-sent time is left as it was (and
\* so is its sent flag, where it has one).
C11_AsStated ==
    [][ \A c \in Categories :
          (AlertAttempted(outbox', c) /\ ~AlertDelivered(outbox', c))
            => /\ LastSentAt'[c] = LastSentAt[c]
               /\ c \in VoltageCategories => SentFlag'[c] = SentFlag[c]
               /\ c = "comm_failure" => comm_failure_sent' = comm_failure_sent
      ]_vars

\* --------------------------------------------------------------- claim C12
\* C12: in a cycle whose reading is None every step of the loop body leaves
\* charger_connected, the relay, the voltage history, the toggle log, the
\* first-decision flag, the voltage-alert flags and the last decision as they
\* were, and control never reaches the alert evaluation, the solar estimate,
\* the decision or the relay step.
C12_ReadFailureHolds ==
    [][ (voltage' = None /\ pc # "cleanup")
          => /\ UNCHANGED <<charger_connected, relay, voltage_history,
                            charger_state_changes, first_decision, decision>>
             /\ UNCHANGED <<voltage_alert_sent, voltage_critical_sent,
                            voltage_high_sent, voltage_critical_high_sent>>
             /\ pc' \notin {"alerts", "solar", "decide", "control", "post"}
      ]_vars

\* the cycle after a high reading disconnected the charger read nothing
C12_Witness ==
    /\ pc = "sleep" /\ cycles = 1
    /\ voltage = None
    /\ consecutive_read_failures = 1
    /\ ~charger_connected /\ relay = "HIGH" /\ ~first_decision
    /\ Len(voltage_history) = 1
    /\ Len(charger_state_changes) = 1
    /\ voltage_high_sent
    /\ decision = Decision(FALSE, "SAFETY_HIGH_VOLTAGE")

\* --------------------------------------------------------------- claim C13
\* C13: while a camping period with threshold T is active the decision is
\* disconnect for a voltage >= T, connect for a voltage <= T - 0.5 V, and in
\* between the state the charger is in: connect when it is connected,
\* disconnect when it is disconnected.
C13_AsStated ==
    (pc = "control" /\ camping_threshold # None)
        => decision.connect =
              IF voltage >= camping_threshold THEN FALSE
              ELSE IF voltage <= camping_threshold - 5 THEN TRUE
              ELSE charger_connected

\* --------------------------------------------------------------- claim C14
\* C14: in every reachable state at most one of the four voltage sent flags
\* is set, and the notifications one sample triggers are about at most one
\* voltage category.
C14_AsStated ==
    /\ Cardinality({c \in VoltageCategories : SentFlag[c]}) <= 1
    /\ Cardinality({c \in VoltageCategories : AlertAttempted(outbox, c)}) <= 1

\* --------------------------------------------------------------- claim C15
\* C15: the voltage alerts of a sample are evaluated after the decision for
\* that sample has been applied, so an alert observes the charger state that
\* decision produced: a high or critical-high alert is never handed to the
\* sink while the charger is still connected.
C15_AsStated ==
    [][ ( /\ pc = "alerts"
          /\ \/ AlertAttempted(outbox', "high")
             \/ AlertAttempted(outbox', "critical_high") )
          => ~charger_connected
      ]_vars

\* ------------------------ specification: the loop body over successive cycles
MaxBodyCycles == 3

\* 20.6 V connects the charger, 24.9 V disconnects it, 23.0 V is in between
BodyVoltages ==
    {CRITICAL_VOLTAGE_THRESHOLD, VOLTAGE_HEALTHY_THRESHOLD, VOLTAGE_THRESHOLD_HIGH + 1}

\* a Monday in June from 12:00, one minute between two cycles
InitBody ==
    /\ now = 12 * 60
    /\ month = 6
    /\ camping_threshold = None
    /\ threshold_low = VOLTAGE_THRESHOLD_LOW
    /\ daily_reboot_hour = None
    /\ camping_periods = PeriodsFor(camping_threshold)
    /\ monthly_solar_profile = MONTHLY_SOLAR_PROFILE
    /\ InitCharger /\ InitToggle /\ InitRead /\ InitVoltAlerts /\ InitCommAlerts
    /\ InitInternet /\ InitSink /\ InitSolar
    /\ InitFlow("read")

NextBody ==
    \/ StepRead(BodyVoltages)
    \/ StepAlerts
    \/ StepComm
    \/ StepInternet
    \/ StepSolar
    \/ StepDecide
    \/ StepControl
    \/ StepPost
    \/ StepSleep({1}, MaxBodyCycles)
    \/ StepCleanup

SpecBody == InitBody /\ [][NextBody]_vars

\* --------------------------------------------------------------- claim C16
\* C16: charger_connected changes only in the control_charger step and the
\* relay output only there and in cleanup(); every other step of the loop
\* body leaves both alone. The control_charger step leaves the decision as it
\* is and, a rapid-toggle alert or not, puts the charger and the relay in the
\* state the decision asks for.
C16_SingleWriter ==
    [][ /\ charger_connected' # charger_connected => pc = "control"
        /\ relay' # relay => pc \in {"control", "cleanup"}
        /\ pc = "control"
             => /\ decision' = decision
                /\ exc' = "none"
                     => /\ charger_connected' = decision.connect
                        /\ relay' = IF decision.connect THEN "LOW" ELSE "HIGH"
      ]_vars

\* the fourth change in four minutes: the alert is sent and the charger is
\* connected as decided
C16_Witness ==
    /\ pc = "post" /\ cycles = 3
    /\ AlertAttempted(outbox, "rapid_toggle")
    /\ Len(charger_state_changes) = 4
    /\ decision = Decision(TRUE, "CRITICAL_INVERTER_PROTECTION")
    /\ charger_connected /\ relay = "LOW"
    /\ voltage_critical_sent /\ voltage_high_sent

\* --------------------------------------------------------------- claim C17
\* the voltage categories whose trigger holds for a sample
TriggeredCategories(v) ==
    {c \in {"critical_high"} : v >= EMAIL_CRITICAL_HIGH_VOLTAGE_THRESHOLD}
        \cup ({alert_branch(v)} \cap VoltageCategories)

\* C17: once a recovery notice has been delivered (and no alert since), the
\* first sample that triggers a voltage category gets an alert of that
\* category delivered, given that the sink delivers.
C17_AsStated ==
    [][ ( /\ pc = "alerts"
          /\ recovery_email_sent
          /\ \A i \in 1..Len(outbox') : outbox'[i].ok )
          => \A c \in TriggeredCategories(voltage) : AlertDelivered(outbox', c)
      ]_vars

\* --------------------------------------------------------------- claim C18
\* how monitor_loop ends: `except KeyboardInterrupt` and `except Exception`
\* log and fall through to the finally clause, cleanup() catches whatever its
\* own writes raise, and only an exception of another class (SystemExit)
\* leaves monitor_loop after the finally clause
monitor_loop_raises ==
    /\ pc \in {"done", "gpio_failed"}
    /\ exc \notin {"none", "KeyboardInterrupt", "Exception"}

\* C18: when the relay write of control_charger raised and the writes of the
\* fail-safe state that follow raised as well, the failure leaves
\* monitor_loop as an exception.
C18_AsStated ==
    (pc = "gpio_failed" /\ exc = "Exception") => monitor_loop_raises

\* --------------------------------------------------------------- claim C19
\* minutes since the last successful read at which this run of failed reads
\* was last notified, or None when it has not been notified
NotifiedAtMinutes ==
    IF \/ attempted["comm_failure"] = None
       \/ attempted["comm_failure"] < last_successful_voltage_read
    THEN None
    ELSE attempted["comm_failure"] - last_successful_voltage_read

\* C19: given a sink that delivers and no sent flag left over from an earlier
\* run of failed reads, check_communication_failure sends nothing below
\* COMM_FAILURE_ALERT_MINUTES since the last successful read, sends the
\* warning notice in the first cycle at or above it, and sends the critical
\* notice in the first cycle at or above COMM_FAILURE_CRITICAL_MINUTES.
C19_AsStated ==
    [][ ( /\ pc = "comm"
          /\ \A i \in 1..Len(outbox') : outbox'[i].ok
          /\ comm_failure_sent => NotifiedAtMinutes # None )
          => LET minutes == now - last_successful_voltage_read
             IN  /\ minutes < COMM_FAILURE_ALERT_MINUTES
                      => ~AlertAttempted(outbox', "comm_failure")
                 /\ ( /\ minutes >= COMM_FAILURE_ALERT_MINUTES
                      /\ minutes < COMM_FAILURE_CRITICAL_MINUTES
                      /\ NotifiedAtMinutes = None )
                      => outbox' = <<Msg({"comm_failure"}, "alert", TRUE)>>
                 /\ ( /\ minutes >= COMM_FAILURE_CRITICAL_MINUTES
                      /\ \/ NotifiedAtMinutes = None
                         \/ NotifiedAtMinutes < COMM_FAILURE_CRITICAL_MINUTES )
                      => outbox' = <<CriticalMsg({"comm_failure"}, "alert", TRUE)>>
      ]_vars

\* --------------------------------------------------------------- claim C20
\* C20: for every season, weekday or weekend and hour, get_current_rate_info
\* returns has_ev_credit exactly for the hours 0 to 5; the returned rate is
\* the base rate of the tier plus the season's (negative) ev_credit in those
\* hours and the base rate otherwise; on weekends the tier is the weekend
\* off-peak tier and the base rate the season's off-peak rate at every hour;
\* on winter weekdays the tier is peak with the peak rate for the hours 17 to
\* 19 and off-peak with the off-peak rate otherwise.
C20_RateInfo ==
    (pc = "control")
        => LET rates == RATE_INFO[get_current_season]
               credit == IF Hour \in 0..5 THEN rates.ev_credit ELSE 0
               suffix == IF Hour \in 0..5 THEN "_with_ev_credit" ELSE ""
           IN  /\ rate_info.has_ev_credit <=> Hour \in 0..5
               /\ rates.ev_credit < 0
               /\ is_weekend_or_holiday
                    => /\ rate_info.rate_type = "off_peak_weekend" \o suffix
                       /\ rate_info.rate = rates.off_peak + credit
               /\ (~is_weekend_or_holiday /\ get_current_season = "winter")
                    => IF Hour \in 17..19
                       THEN /\ rate_info.rate_type = "peak" \o suffix
                            /\ rate_info.rate = rates.peak + credit
                       ELSE /\ rate_info.rate_type = "off_peak" \o suffix
                            /\ rate_info.rate = rates.off_peak + credit
               /\ (~is_weekend_or_holiday /\ get_current_season = "summer")
                    => rate_info.rate - credit \in {rates.off_peak, rates.mid_peak, rates.peak}

\* a summer Saturday at 03:00: weekend off-peak with the EV credit
C20_Witness ==
    /\ pc = "control"
    /\ month = 6 /\ Weekday = 5 /\ Hour = 3
    /\ rate_info = RateInfo("off_peak_weekend_with_ev_credit", 1355, TRUE)

\* ------------------------------ specification: the readings of successive cycles
MaxHistoryCycles == 3

\* 23.0 V and 23.3 V
HistoryVoltages == {VOLTAGE_HEALTHY_THRESHOLD, VOLTAGE_HEALTHY_THRESHOLD + 3}

\* a monitor that has just started, or one that has read for all but two
\* minutes of the detection window
InitHistory ==
    /\ now = 12 * 60
    /\ month = 6
    /\ camping_threshold = None
    /\ threshold_low = VOLTAGE_THRESHOLD_LOW
    /\ daily_reboot_hour = None
    /\ camping_periods = PeriodsFor(camping_threshold)
    /\ monthly_solar_profile = MONTHLY_SOLAR_PROFILE
    /\ InitCharger /\ InitToggle /\ InitVoltAlerts /\ InitCommAlerts
    /\ InitInternet /\ InitSink /\ InitSolar
    /\ \E n \in {0, HistoryCapacity - 2} :
          /\ voltage_history = HistoryAfter(n, now)
          /\ last_voltage = IF n = 0 THEN 0 ELSE voltage_history[n][2]
          /\ last_successful_voltage_read = IF n = 0 THEN now ELSE now - 1
    /\ consecutive_read_failures = 0
    /\ InitFlow("read")

\* the steps of the cycle after the reading
HistoryRestOfCycle ==
    /\ pc \in {"alerts", "comm"}
    /\ pc' = "sleep"
    /\ UNCHANGED <<clockVars, chargerVars, toggleVars, readVars, voltAlertVars,
                   commAlertVars, internetVars, sinkVars, solarVars, voltage, rate_info, read_call,
                   decision, exc, relay_writes, cycles>>

NextHistory ==
    \/ StepRead(HistoryVoltages)
    \/ HistoryRestOfCycle
    \/ StepSleep({1}, MaxHistoryCycles)

SpecHistory == InitHistory /\ [][NextHistory]_vars

\* --------------------------------------------------------------- claim C21
\* C21: the voltage history never holds more than HistoryCapacity (> 0)
\* samples and holds them in the order they were read; a successful read
\* appends its sample, evicting exactly the oldest sample when the history is
\* full and keeping the rest in order; a failed read and every other step
\* leave the history as it is.
C21_HistoryRing ==
    [][ /\ HistoryCapacity > 0
        /\ Len(voltage_history') <= HistoryCapacity
        /\ \A i \in 1..(Len(voltage_history') - 1) :
              voltage_history'[i][1] < voltage_history'[i + 1][1]
        /\ (pc = "read" /\ voltage' # None)
              => voltage_history' =
                    (IF Len(voltage_history) = HistoryCapacity
                     THEN Tail(voltage_history) ELSE voltage_history)
                        \o <<(<<now, voltage'>>)>>
        /\ (pc # "read" \/ voltage' = None) => UNCHANGED voltage_history
      ]_vars

\* a successful read into a full history: the oldest sample is gone
C21_Witness ==
    /\ pc = "alerts" /\ cycles = 3
    /\ Len(voltage_history) = HistoryCapacity
    /\ voltage_history[HistoryCapacity] = <<now, voltage>>
    /\ voltage_history[1][1] = now - HistoryCapacity + 1
    /\ consecutive_read_failures = 0

\* ------------------------------------ battery_monitor.py: BatteryMonitor
\* mutant: no hysteresis band, the charger is connected below the high threshold
simple_safety_logic_no_band(v) == v < SIMPLE_VOLTAGE_THRESHOLD_HIGH

\* the safety logic of BatteryMonitor.monitor_loop with control_charger: the
\* state of the charger after a reading v
simple_safety_logic(v) ==
    IF v >= SIMPLE_VOLTAGE_THRESHOLD_HIGH THEN FALSE
    ELSE IF v <= SIMPLE_VOLTAGE_THRESHOLD_LOW THEN TRUE
    ELSE charger_connected

\* one pass of the loop body: read_voltage(), then the safety logic
SimpleCycle(V) ==
    /\ pc = "read"
    /\ \E r \in V \cup {None} :
          /\ voltage' = r
          /\ last_voltage' = IF r = None THEN last_voltage ELSE r
          /\ charger_connected' = IF r = None THEN charger_connected ELSE simple_safety_logic(r)
    /\ relay' = IF charger_connected' = charger_connected THEN relay
                ELSE IF charger_connected' THEN "LOW" ELSE "HIGH"
    /\ relay_writes' = IF charger_connected' = charger_connected THEN 0 ELSE 1
    /\ pc' = "sleep"
    /\ UNCHANGED <<clockVars, first_decision, toggleVars, voltage_history,
                   last_successful_voltage_read, consecutive_read_failures,
                   voltAlertVars, commAlertVars, internetVars, sinkVars, solarVars,
                   rate_info, read_call, decision, exc, cycles>>

\* --------------------------------- specification: the simple monitor's loop
MaxSimpleCycles == 7

\* the readings of test_voltage_scenarios
SimpleVoltages == {240, 245, 247, 249, 251, 246, 244, 242}

InitSimple ==
    /\ now = 12 * 60
    /\ month = 6
    /\ camping_threshold = None
    /\ threshold_low = SIMPLE_VOLTAGE_THRESHOLD_LOW
    /\ daily_reboot_hour = None
    /\ camping_periods = PeriodsFor(camping_threshold)
    /\ monthly_solar_profile = MONTHLY_SOLAR_PROFILE
    /\ InitCharger /\ InitToggle /\ InitRead /\ InitVoltAlerts /\ InitCommAlerts
    /\ InitInternet /\ InitSink /\ InitSolar
    /\ InitFlow("read")

NextSimple ==
    \/ SimpleCycle(SimpleVoltages)
    \/ StepSleep({1}, MaxSimpleCycles)

SpecSimple == InitSimple /\ [][NextSimple]_vars

\* --------------------------------------------------------------- claim C22
\* C22: in every cycle of the simple monitor with a reading, the charger is
\* disconnected after a reading >= 24.8 V, connected after a reading
\* <= 24.5 V and left as it was for a reading in between, the relay
\* following it; a cycle without a reading changes nothing.
C22_SimpleHysteresis ==
    [][ (pc = "read")
          => /\ voltage' >= SIMPLE_VOLTAGE_THRESHOLD_HIGH => ~charger_connected'
             /\ (voltage' # None /\ voltage' <= SIMPLE_VOLTAGE_THRESHOLD_LOW)
                  => charger_connected'
             /\ \/ voltage' = None
                \/ /\ SIMPLE_VOLTAGE_THRESHOLD_LOW < voltage'
                   /\ voltage' < SIMPLE_VOLTAGE_THRESHOLD_HIGH
                => UNCHANGED <<charger_connected, relay>>
             /\ relay' = IF charger_connected' THEN "LOW" ELSE "HIGH"
      ]_vars

\* 24.6 V after the disconnect: the charger stays disconnected
C22_Witness ==
    /\ pc = "sleep"
    /\ voltage = 246
    /\ ~charger_connected /\ relay = "HIGH"
    /\ relay_writes = 0

\* --------------------------------------------------------------- claim C23
\* C23: with no camping period active, a disconnected charger and
\* VOLTAGE_THRESHOLD_LOW <= voltage < VOLTAGE_THRESHOLD_HIGH, should_charge
\* returns (disconnect, "SAFETY_HIGH_VOLTAGE_HYSTERESIS") at every hour, on
\* weekdays and weekends, with and without solar: the rule wins over the
\* EV-credit and solar rules that also match such a voltage. (Under the
\* configured thresholds no such voltage matches the critical-low or the
\* emergency rule.)
C23_HighHysteresis ==
    ( /\ pc = "control"
      /\ camping_threshold = None
      /\ ~charger_connected
      /\ threshold_low <= voltage
      /\ voltage < VOLTAGE_THRESHOLD_HIGH )
        => decision = Decision(FALSE, "SAFETY_HIGH_VOLTAGE_HYSTERESIS")

\* at the reconnect threshold in the EV-credit window with solar flagged
C23_Witness ==
    /\ pc = "control"
    /\ camping_threshold = None
    /\ ~charger_connected /\ solar_detected /\ Hour = 3
    /\ voltage = threshold_low
    /\ decision = Decision(FALSE, "SAFETY_HIGH_VOLTAGE_HYSTERESIS")

\* --------------------------------------------------------------- claim C24
\* C24: with no camping period active and none of the safety rules matching
\* (EMERGENCY_VOLTAGE_THRESHOLD < voltage < VOLTAGE_THRESHOLD_HIGH and not a
\* disconnected charger at or above VOLTAGE_THRESHOLD_LOW), in the hours 0 to
\* 5 or with solar flagged the decision is connect below
\* NORMAL_VOLTAGE_THRESHOLD and disconnect at or above it, whatever the
\* charger state, the weekday and the charging windows; in the hours 0 to 5
\* the reason is the EV-credit one, with solar flagged or not.
C24_EvCreditAndSolar ==
    ( /\ pc = "control"
      /\ camping_threshold = None
      /\ EMERGENCY_VOLTAGE_THRESHOLD < voltage
      /\ voltage < VOLTAGE_THRESHOLD_HIGH
      /\ ~(~charger_connected /\ voltage >= threshold_low)
      /\ (Hour \in 0..5 \/ solar_detected) )
        => decision =
              IF Hour \in 0..5
              THEN IF voltage < NORMAL_VOLTAGE_THRESHOLD
                   THEN Decision(TRUE, "EV_CREDIT_PRIORITY")
                   ELSE Decision(FALSE, "EV_CREDIT_VOLTAGE_HIGH")
              ELSE IF voltage < NORMAL_VOLTAGE_THRESHOLD
                   THEN Decision(TRUE, "SOLAR_ACTIVE")
                   ELSE Decision(FALSE, "SOLAR_VOLTAGE_HIGH")

\* a connected charger at the normal ceiling, 03:00 on a Saturday, solar flagged
C24_Witness ==
    /\ pc = "control"
    /\ camping_threshold = None
    /\ charger_connected /\ solar_detected
    /\ Hour = 3 /\ Weekday = 5
    /\ voltage = NORMAL_VOLTAGE_THRESHOLD
    /\ decision = Decision(FALSE, "EV_CREDIT_VOLTAGE_HIGH")

\* --------------------------------------------------------------- claim C25
\* C25: in the hours 20 to 23 with no camping period and no earlier rule
\* matching, the evening rule decides: connect at or below
\* EVENING_EV_WAIT_THRESHOLD, disconnect at or above that threshold + 1.0 V,
\* and in between disconnect while first_decision is set and the state the
\* charger is in afterwards, with one of the two evening reasons.
\* first_decision is cleared by the first control_charger call and changed by
\* nothing else.
C25_EveningRule ==
    [][ /\ ( /\ pc = "decide" /\ pc' = "control"
             /\ camping_threshold = None
             /\ Hour \in 20..23
             /\ EMERGENCY_VOLTAGE_THRESHOLD < voltage
             /\ voltage < VOLTAGE_THRESHOLD_HIGH
             /\ ~(~charger_connected /\ voltage >= threshold_low)
             /\ ~solar_detected )
             => /\ decision'.connect =
                      IF voltage <= EVENING_EV_WAIT_THRESHOLD THEN TRUE
                      ELSE IF voltage >= EVENING_EV_WAIT_THRESHOLD + 10 THEN FALSE
                      ELSE IF first_decision THEN FALSE
                      ELSE charger_connected
                /\ decision'.reason =
                      IF decision'.connect THEN "EVENING_LOW_VOLTAGE_CHARGE"
                      ELSE "WAITING_FOR_EV_CREDIT_PERIOD"
        /\ pc = "control" => ~first_decision'
        /\ pc # "control" => UNCHANGED first_decision
      ]_vars

\* 21.3 V at 21:00 on the second decision with the charger connected: held
C25_Witness ==
    /\ pc = "control" /\ cycles = 1
    /\ Hour = 21
    /\ voltage = LOW_VOLTAGE_PRIORITY_THRESHOLD + 1
    /\ ~first_decision /\ charger_connected /\ ~solar_detected
    /\ decision = Decision(TRUE, "EVENING_LOW_VOLTAGE_CHARGE")

C27_AsStated ==
    LET h == voltage_history
        n == Len(h)
        run == {i \in 1..n : \A j \in i..n : h[j][2] >= SOLAR_PLATEAU_THRESHOLD}
        first == CHOOSE i \in run : \A k \in run : i <= k
    IN  ( /\ pc = "decide"
          /\ "voltage_plateau" \in evaluated
          /\ _detect_solar_by_plateau )
        => /\ last_voltage >= SOLAR_PLATEAU_THRESHOLD
           /\ _detect_solar_by_time
           /\ run # {}
           /\ h[n][1] - h[first][1] >= SOLAR_PLATEAU_MIN_DURATION

\* ------------------- specification: the time-based detector over profiles
\* detect_solar_charging() on an empty history, which returns the result of
\* _detect_solar_by_time(), at every hour of a day in every month, under the
\* configured profile and under profiles whose entry for the month has a
\* solar factor of 0.20, 0.29 or 0.30 and a daylight range of nine, five,
\* four or three hours
InitDaylight ==
    /\ month \in 1..12
    /\ now \in {60 * h : h \in 0..23}
    /\ \/ monthly_solar_profile = MONTHLY_SOLAR_PROFILE
       \/ \E f \in {20, 29, 30},
             r \in {<<8, 17>>, <<9, 14>>, <<10, 14>>, <<10, 13>>} :
             monthly_solar_profile =
                 [MONTHLY_SOLAR_PROFILE EXCEPT
                     ![month] = [solar_factor |-> f, daylight |-> r]]
    /\ camping_threshold = None
    /\ threshold_low = VOLTAGE_THRESHOLD_LOW
    /\ daily_reboot_hour = None
    /\ camping_periods = PeriodsFor(camping_threshold)
    /\ InitCharger /\ InitToggle /\ InitRead /\ InitVoltAlerts /\ InitCommAlerts
    /\ InitInternet /\ InitSink /\ InitSolar
    /\ InitFlow("solar")

SpecDaylight == InitDaylight /\ [][StepSolar]_vars

\* --------------------------------------------------------------- claim C28
\* C28 as stated: the time-based detector returns true exactly when the hour
\* is in [dayStart, dayEnd) of the month's profile, and in a month with a
\* solar factor below 0.3 exactly when the hour is in
\* [dayStart + 2, dayEnd - 2), for every daylight range, empty trimmed
\* windows included.
C28_AsStated ==
    LET dayStart == monthly_solar_profile[month].daylight[1]
        dayEnd == monthly_solar_profile[month].daylight[2]
    IN  (pc = "decide" /\ evaluated = {"time_based"})
        => solar_result =
             IF monthly_solar_profile[month].solar_factor < 30
             THEN dayStart + 2 <= Hour /\ Hour < dayEnd - 2
             ELSE dayStart <= Hour /\ Hour < dayEnd

\* C28: the time-based detector returns true exactly when the hour is in
\* [dayStart, dayEnd) of the month's profile, except that in a month with a
\* solar factor below 0.3 whose daylight range is longer than four hours it
\* returns true exactly when the hour is in [dayStart + 2, dayEnd - 2); in a
\* low-solar month with a range of four hours or less the whole range counts.
C28_TimeWindow ==
    LET dayStart == monthly_solar_profile[month].daylight[1]
        dayEnd == monthly_solar_profile[month].daylight[2]
    IN  (pc = "decide" /\ evaluated = {"time_based"})
        => solar_result =
             IF monthly_solar_profile[month].solar_factor < 30 /\ dayEnd - dayStart > 4
             THEN dayStart + 2 <= Hour /\ Hour < dayEnd - 2
             ELSE dayStart <= Hour /\ Hour < dayEnd

\* 11:00 in a month with solar factor 0.29 and daylight from 10 to 14
C28_Witness ==
    /\ pc = "decide" /\ evaluated = {"time_based"}
    /\ monthly_solar_profile[month] = [solar_factor |-> 29, daylight |-> <<10, 14>>]
    /\ Hour = 11
    /\ solar_result

\* ------------------------------ specification: one call of read_voltage
READ_ATTEMPTS == 50

MaxReadPasses == 3

\* millivolt values on the "V" line: 23.0 V and 24.9 V
ReadVoltages == {VOLTAGE_HEALTHY_THRESHOLD, VOLTAGE_THRESHOLD_HIGH + 1}

\* mutant: the reconnect is tried whatever recovery_attempt says
may_reconnect_every_time(recovery_attempt, error) == error = "io_error"

\* `not recovery_attempt and ("Input/output error" in str(e) or ...)`
may_reconnect(recovery_attempt, error) == ~recovery_attempt /\ error = "io_error"

\* one iteration of `for attempt in range(50)`: the line is skipped (empty,
\* not a "V" line, or not parseable), or it carries a voltage and the call
\* returns it, or readline raises; after the last iteration the call counts
\* the failure and returns None
ReadLine ==
    /\ pc = "readline"
    /\ IF read_call.attempt < READ_ATTEMPTS
       THEN \/ /\ read_call' = [read_call EXCEPT !.attempt = @ + 1]
               /\ UNCHANGED <<pc, voltage, readVars>>
            \/ \E v \in ReadVoltages :
                  /\ read_call' = [read_call EXCEPT !.attempt = @ + 1]
                  /\ read_voltage(v)
                  /\ voltage' = v
                  /\ pc' = "returned"
            \/ \E e \in {"io_error", "other_error"} :
                  /\ read_call' = [read_call EXCEPT !.attempt = @ + 1, !.error = e]
                  /\ pc' = "except"
                  /\ UNCHANGED <<voltage, readVars>>
       ELSE /\ read_voltage(None)
            /\ voltage' = None
            /\ pc' = "returned"
            /\ UNCHANGED read_call
    /\ UNCHANGED <<clockVars, chargerVars, toggleVars, voltAlertVars, commAlertVars,
                   internetVars, sinkVars, solarVars, rate_info, decision, exc,
                   relay_writes, cycles>>

\* the `except Exception` clause: on an I/O error of the first pass the port
\* is reopened and, when that works, read_voltage(recovery_attempt=True) runs
\* the second pass; otherwise the failure is counted and None is returned
HandleError ==
    /\ pc = "except"
    /\ \/ /\ may_reconnect(read_call.recovery_attempt, read_call.error)
          /\ read_call.passes < MaxReadPasses
          /\ \E reconnected \in BOOLEAN :
                IF reconnected
                THEN /\ read_call' = ReadCall(0, TRUE, read_call.passes + 1,
                                              read_call.reconnects + 1, "none")
                     /\ pc' = "readline"
                     /\ UNCHANGED <<voltage, readVars>>
                ELSE /\ read_call' = [read_call EXCEPT !.reconnects = @ + 1]
                     /\ read_voltage(None)
                     /\ voltage' = None
                     /\ pc' = "returned"
       \/ /\ ~may_reconnect(read_call.recovery_attempt, read_call.error)
          /\ read_voltage(None)
          /\ voltage' = None
          /\ pc' = "returned"
          /\ UNCHANGED read_call
    /\ UNCHANGED <<clockVars, chargerVars, toggleVars, voltAlertVars, commAlertVars,
                   internetVars, sinkVars, solarVars, rate_info, decision, exc,
                   relay_writes, cycles>>

\* a call of read_voltage() at noon after zero to two failed reads
InitReadCall ==
    /\ now = 12 * 60 /\ month = 6
    /\ monthly_solar_profile = MONTHLY_SOLAR_PROFILE
    /\ camping_threshold = None
    /\ threshold_low = VOLTAGE_THRESHOLD_LOW
    /\ daily_reboot_hour = None
    /\ camping_periods = PeriodsFor(camping_threshold)
    /\ InitCharger /\ InitToggle /\ InitVoltAlerts /\ InitCommAlerts
    /\ InitInternet /\ InitSink /\ InitSolar
    /\ last_voltage = 0
    /\ voltage_history = <<>>
    /\ last_successful_voltage_read = now
    /\ consecutive_read_failures \in 0..2
    /\ pc = "readline"
    /\ voltage = None
    /\ rate_info = NoRateInfo
    /\ read_call = ReadCall(0, FALSE, 1, 0, "none")
    /\ decision = NoDecision
    /\ exc = "none"
    /\ relay_writes = 0
    /\ cycles = 0

NextRead == ReadLine \/ HandleError

\* readline() returns within its timeout of 2 s and the reconnect returns or
\* raises: a call that can take a step takes it
SpecRead == InitReadCall /\ [][NextRead]_vars /\ WF_vars(NextRead)

\* --------------------------------------------------------------- claim C29
\* C29: a call of read_voltage returns, with a voltage or with None and no
\* exception in flight; a pass reads at most 50 lines, a call makes at most
\* one reconnect attempt and at most one pass after it, and an error in that
\* retry pass is answered by returning None, not by a reconnect.
C29_ReadTerminates ==
    /\ [](/\ read_call.attempt <= READ_ATTEMPTS
          /\ read_call.reconnects <= 1
          /\ read_call.passes <= 2
          /\ read_call.passes = 2 => read_call.recovery_attempt
          /\ exc = "none"
          /\ pc = "returned" => voltage \in ReadVoltages \cup {None})
    /\ [][ ( pc = "except" /\ read_call.recovery_attempt )
            => /\ pc' = "returned" /\ voltage' = None
               /\ read_call' = read_call
               /\ consecutive_read_failures' = consecutive_read_failures + 1
       ]_vars
    /\ <>(pc = "returned")

\* an I/O error in the retry pass after a successful reconnect: None returned
C29_Witness ==
    /\ pc = "returned" /\ voltage = None
    /\ read_call.recovery_attempt /\ read_call.error = "io_error"
    /\ read_call.passes = 2 /\ read_call.reconnects = 1

\* ------------------------- specification: is_camping_period over configurations
\* `is_camping, camping_voltage = self.is_camping_period()`, the first
\* statement of should_charge
StepCamping ==
    /\ pc = "decide"
    /\ LET result == is_camping_period_at(camping_periods, Today)
       IN  /\ camping_threshold' = result.threshold
           /\ exc' = result.raised
           /\ pc' = Goto("control", result.raised)
    /\ UNCHANGED <<now, month, camping_periods, threshold_low, daily_reboot_hour,
                   monthly_solar_profile, chargerVars, toggleVars, readVars,
                   voltAlertVars, commAlertVars, internetVars, sinkVars, solarVars,
                   voltage, rate_info, read_call, decision, relay_writes, cycles>>

\* Monday to Thursday at noon; up to two periods, each one of: Tuesday to
\* Wednesday at 24.6 V, Wednesday to Thursday at 25.0 V, Tuesday to Wednesday
\* without a threshold, a single field, a start date strptime rejects, an end
\* date strptime rejects, and a start date that is no text
InitCamping ==
    /\ now \in {d * 1440 + 12 * 60 : d \in 0..3}
    /\ month = 6
    /\ \E n \in 0..2 :
          camping_periods \in
              [1..n -> { <<DateField(TRUE, 1), DateField(TRUE, 2), DEFAULT_CAMPING_VOLTAGE>>,
                         <<DateField(TRUE, 2), DateField(TRUE, 3), VOLTAGE_THRESHOLD_HIGH + 2>>,
                         <<DateField(TRUE, 1), DateField(TRUE, 2)>>,
                         <<DateField(TRUE, 1)>>,
                         <<DateField(TRUE, None), DateField(TRUE, 2), DEFAULT_CAMPING_VOLTAGE>>,
                         <<DateField(TRUE, 1), DateField(TRUE, None), DEFAULT_CAMPING_VOLTAGE>>,
                         <<DateField(FALSE, None), DateField(TRUE, 2), DEFAULT_CAMPING_VOLTAGE>> }]
    /\ camping_threshold = None
    /\ threshold_low = VOLTAGE_THRESHOLD_LOW
    /\ daily_reboot_hour = None
    /\ monthly_solar_profile = MONTHLY_SOLAR_PROFILE
    /\ InitCharger /\ InitToggle /\ InitRead /\ InitVoltAlerts /\ InitCommAlerts
    /\ InitInternet /\ InitSink /\ InitSolar
    /\ InitFlow("decide")

SpecCamping == InitCamping /\ [][StepCamping]_vars

\* --------------------------------------------------------------- claim C30
\* C30: is_camping_period raises nothing and returns the threshold of the
\* first period, in configuration order, that is well formed (three fields,
\* both dates texts that parse) and whose inclusive date range contains
\* today, or None when there is no such period: a malformed entry is skipped
\* and the periods after it are still considered.
C30_AsStated ==
    LET well_formed(p) ==
            /\ Len(p) = 3
            /\ p[1].is_str /\ p[1].date # None
            /\ p[2].is_str /\ p[2].date # None
        matching ==
            {i \in 1..Len(camping_periods) :
                /\ well_formed(camping_periods[i])
                /\ camping_periods[i][1].date <= Today
                /\ Today <= camping_periods[i][2].date}
        first == CHOOSE i \in matching : \A k \in matching : i <= k
    IN  pc # "decide"
        => /\ exc = "none"
           /\ camping_threshold =
                 IF matching = {} THEN None ELSE camping_periods[first][3]

\* --------------------------------------------------------------- claim C31
\* C31: on a summer weekday get_current_rate_info returns the tier of the
\* schedule documented with RATE_INFO: off-peak from midnight to noon,
\* mid-peak from noon to 5 PM and from 8 PM to midnight, peak from 5 PM to
\* 8 PM (with the EV credit applied from midnight to 6 AM).
C31_AsStated ==
    LET tier == IF Hour < 12 THEN "off_peak"
                ELSE IF Hour < 17 THEN "mid_peak"
                ELSE IF Hour < 20 THEN "peak"
                ELSE "mid_peak"
        credit == IF Hour < 6 THEN RATE_INFO.summer.ev_credit ELSE 0
        suffix == IF Hour < 6 THEN "_with_ev_credit" ELSE ""
    IN  ( /\ pc = "control"
          /\ get_current_season = "summer"
          /\ ~is_weekend_or_holiday )
        => /\ rate_info.rate_type = tier \o suffix
           /\ rate_info.rate = RATE_INFO.summer[tier] + credit

\* --------------------------------------------------------------- claim C32
\* C32: on a sample that triggers a voltage category, with the sink
\* delivering, the category's alert is sent when no alert of the category has
\* been delivered yet (or a recovery notice was delivered since) and when the
\* last delivered alert is more than EMAIL_COOLDOWN_MINUTES old, and at no
\* other sample; a send sets the category's sent flag, sets its last-sent
\* time to now and clears recovery_email_sent.
C32_SendAndResend ==
    [][ ( /\ pc = "alerts"
          /\ \A i \in 1..Len(outbox') : outbox'[i].ok )
          => \A c \in TriggeredCategories(voltage) :
                IF \/ delivered[c] = None
                   \/ recovered_since[c]
                   \/ now - delivered[c] > EMAIL_COOLDOWN_MINUTES
                THEN /\ AlertDelivered(outbox', c)
                     /\ SentFlag'[c]
                     /\ LastSentAt'[c] = now
                     /\ ~recovery_email_sent'
                ELSE /\ ~AlertAttempted(outbox', c)
                     /\ SentFlag'[c]
                     /\ LastSentAt'[c] = delivered[c]
      ]_vars

\* three low-voltage samples, 10 and 31 minutes after the first: the alert of
\* the first one is sent again with the third
C32_Witness ==
    /\ pc = "comm"
    /\ Len(voltage_history) = 3
    /\ \A i \in 1..3 : voltage_history[i][2] = EMAIL_ALERT_VOLTAGE_THRESHOLD
    /\ voltage_history[2][1] = voltage_history[1][1] + COMM_FAILURE_ALERT_MINUTES
    /\ now = voltage_history[1][1] + EMAIL_COOLDOWN_MINUTES + 1
    /\ AlertDelivered(outbox, "low")
    /\ voltage_alert_sent /\ last_email_alert = now

\* ------------------- specification: the internet check over failing reads
MaxInternetCycles == 2

\* the cycles of monitor_loop in which read_voltage() returns None: the
\* communication check, the internet check and the sleep, with one interval
\* of the internet check between two cycles
NextInternet ==
    \/ StepRead({})
    \/ StepComm
    \/ StepInternet
    \/ StepSleep({INTERNET_CHECK_INTERVAL}, MaxInternetCycles)
    \/ StepCleanup

SpecInternet == InitBody /\ [][NextInternet]_vars

\* --------------------------------------------------------------- claim C33
\* C33: two internet-failure warnings are never sent less than one hour
\* apart, whatever the results of the connectivity checks are (a failure, a
\* restored connection and another failure included).
C33_AsStated ==
    [][ ( /\ pc = "internet"
          /\ AlertDelivered(outbox', "internet_failure") )
          => \/ delivered["internet_failure"] = None
             \/ now - delivered["internet_failure"] >= INTERNET_ALERT_COOLDOWN
      ]_vars

\* --------------------------------------------------------------- claim C34
\* C34: with at least 5 samples in the history, the estimate returned by
\* detect_solar_charging equals the result of the time-based detector: the
\* trend, plateau and load-compensated detectors fire only when the
\* time-based detector fires, and do not change the OR of the four.
C34_EstimateIsTimeBased ==
    (pc = "decide" /\ "time_based" \in evaluated /\ Len(voltage_history) >= 5)
        => /\ evaluated = {"voltage_trend", "time_based", "voltage_plateau",
                           "load_compensation"}
           /\ solar_result = _detect_solar_by_time
           /\ _detect_solar_by_voltage_trend => _detect_solar_by_time
           /\ _detect_solar_by_plateau => _detect_solar_by_time
           /\ _detect_solar_with_load_compensation => _detect_solar_by_time

\* June at 20:00 or later, more than twenty samples, the last one of 23.9 V
\* after 23.0 V twenty samples earlier: the estimate is false
C34_Witness ==
    /\ pc = "decide" /\ month = 6 /\ Hour >= 20
    /\ Len(voltage_history) > 20
    /\ voltage_history[Len(voltage_history)][2] = SOLAR_PLATEAU_THRESHOLD + 1
    /\ voltage_history[Len(voltage_history) - 19][2] = VOLTAGE_HEALTHY_THRESHOLD
    /\ "load_compensation" \in evaluated
    /\ ~solar_result /\ ~solar_detected

\* --------------------------------------------------------------- claim C35
\* C35: after every call of detect_solar_charging the stored flag
\* solar_detected equals the value the call returned, also with fewer than 5
\* samples in the history when the time-based detector turns from true to
\* false.
C35_AsStated ==
    pc = "decide" => solar_detected = solar_result

\* ------------------- specification: the decision applied under constant inputs
MaxStableCycles == 2

\* the inputs of should_charge alone, in January and June, with no daily reboot
InitStable ==
    /\ InitDecide
    /\ month \in {1, 6}
    /\ daily_reboot_hour = None

\* the next cycle finds the same voltage, the same hour and the same solar
\* estimate
StableRestOfCycle ==
    /\ pc = "post"
    /\ cycles < MaxStableCycles
    /\ cycles' = cycles + 1
    /\ pc' = "decide"
    /\ UNCHANGED <<clockVars, chargerVars, toggleVars, readVars, voltAlertVars,
                   commAlertVars, internetVars, sinkVars, solarVars, voltage,
                   rate_info, read_call, decision, exc, relay_writes>>

NextStable == StepDecide \/ StepControl \/ StableRestOfCycle

SpecStable == InitStable /\ [][NextStable]_vars

MaxToggleCalls == 12

\* one monitor interval between two calls
MonitorInterval ==
    /\ pc = "sleep"
    /\ cycles < MaxToggleCalls
    /\ now' = now + 1
    /\ pc' = "control"
    /\ UNCHANGED <<month, camping_periods, camping_threshold, threshold_low,
                   daily_reboot_hour, monthly_solar_profile,
                   chargerVars, toggleVars, readVars, voltAlertVars, commAlertVars,
                   internetVars, sinkVars, solarVars, voltage, rate_info, read_call,
                   decision, exc, relay_writes, cycles>>

NextToggle == CallControl \/ MonitorInterval

SpecToggle == InitControl /\ [][NextToggle]_vars

\* --------------------------------------------------------------- claim C37
\* C37: the toggle log holds at most 10 entries in non-decreasing timestamp
\* order, consecutive entries alternate between 'connected' and
\* 'disconnected', and the newest entry names the state the charger is in.
\* A call of control_charger that changes charger_connected appends one entry
\* for the change, dropping the oldest of ten, so the log is the last ten
\* changes; a call that changes nothing leaves the log alone.
C37_ToggleLog ==
    /\ [] ( /\ Len(charger_state_changes) <= 10
            /\ \A i \in 1..(Len(charger_state_changes) - 1) :
                  /\ charger_state_changes[i].t <= charger_state_changes[i + 1].t
                  /\ charger_state_changes[i].state # charger_state_changes[i + 1].state
            /\ charger_state_changes # <<>>
                  => ( charger_state_changes[Len(charger_state_changes)].state = "connected"
                         <=> charger_connected ) )
    /\ [][ ( pc = "control" )
             => LET all == Append(charger_state_changes,
                                  [t |-> now,
                                   state |-> IF charger_connected' THEN "connected"
                                             ELSE "disconnected",
                                   reason |-> decision'.reason])
                    first == IF Len(all) > 10 THEN Len(all) - 9 ELSE 1
                IN  IF charger_connected' # charger_connected
                    THEN charger_state_changes' = SubSeq(all, first, Len(all))
                    ELSE charger_state_changes' = charger_state_changes
         ]_vars

\* eleven changes in eleven calls: the log holds the last ten
C37_Witness ==
    /\ pc = "sleep" /\ cycles = 11
    /\ Len(charger_state_changes) = 10
    /\ charger_state_changes[1].t = 12 * 60 + 1
    /\ charger_state_changes[10].t = 12 * 60 + 10
    /\ charger_state_changes[10].state = "connected" /\ charger_connected

\* --------------------------------------------------------------- claim C38
\* C38: until cleanup() has run the relay output is low exactly when
\* charger_connected is true. At the end of a cycle whose read succeeded
\* charger_connected equals the value should_charge returned in that cycle;
\* outside a camping period the charger is then disconnected when the reading
\* is at or above VOLTAGE_THRESHOLD_HIGH and connected when it is at or below
\* CRITICAL_VOLTAGE_THRESHOLD.
C38_RelayFollowsDecision ==
    /\ pc \notin {"done", "gpio_failed"} => ( relay = "LOW" <=> charger_connected )
    /\ ( pc = "sleep" /\ voltage # None )
          => /\ charger_connected = decision.connect
             /\ ( ~is_camping_period /\ voltage >= VOLTAGE_THRESHOLD_HIGH ) => ~charger_connected
             /\ ( ~is_camping_period /\ voltage <= CRITICAL_VOLTAGE_THRESHOLD ) => charger_connected

\* a cycle at 24.9 V has disconnected the charger, the next one at 20.6 V has
\* connected it again
C38_Witness ==
    /\ pc = "sleep" /\ cycles = 1
    /\ voltage = CRITICAL_VOLTAGE_THRESHOLD
    /\ decision = Decision(TRUE, "CRITICAL_INVERTER_PROTECTION")
    /\ charger_connected /\ relay = "LOW" /\ relay_writes = 1
    /\ Len(charger_state_changes) = 2
    /\ charger_state_changes[1].reason = "SAFETY_HIGH_VOLTAGE"

\* --------------------------------------------------------------- claim C39
\* C39 as stated: the fallback hysteresis codes and the camping hold code are
\* returned for some input.  Each of the three return statements names the
\* inputs it is written for, and the code can be returned for those only:
\* outside a camping period a voltage above VOLTAGE_THRESHOLD_LOW and below
\* the safety ceiling, with the charger connected (HYSTERESIS_DISCONNECT) or
\* disconnected (HYSTERESIS_STAY_DISCONNECTED); inside a camping period with
\* threshold T a disconnected charger and a voltage between T - 0.5 V and T
\* (CAMPING_HYSTERESIS).  Stated for these inputs: the decision is disconnect
\* with the rule's code.
C39_AsStated ==
    ( pc = "control" )
    => /\ ( /\ ~is_camping_period
            /\ voltage > VOLTAGE_THRESHOLD_LOW /\ voltage < VOLTAGE_THRESHOLD_HIGH )
          => decision = Decision(FALSE, IF charger_connected
                                        THEN "HYSTERESIS_DISCONNECT"
                                        ELSE "HYSTERESIS_STAY_DISCONNECTED")
       /\ ( /\ is_camping_period /\ ~charger_connected
            /\ voltage > camping_threshold - 5 /\ voltage < camping_threshold )
          => decision.reason \in {"CAMPING_HYSTERESIS_24.6V", "CAMPING_HYSTERESIS_25.0V"}

====
